---------------------------- MODULE Spec2Model ----------------------------
(***************************************************************************)
(* A model of the c-mail intelligence layer: the rule store of             *)
(* DatabaseService, RulesEngine (createRule, updateRule, deleteRule,       *)
(* applyRulesToEmail, testRule), the account sync of main.ts with the      *)
(* classifier, and CleanupService.executeAction.                           *)
(*                                                                         *)
(* The handlers are JavaScript async functions on one event loop: a        *)
(* handler runs alone from one `await` to the next.  The variable          *)
(* `running` names the handler that holds the thread; a handler gives it   *)
(* up at each `await` and any handler may take it then.                    *)
(*                                                                         *)
(* Strings are sequences of one-character strings, so that toLowerCase,    *)
(* includes, startsWith, endsWith and the < and > of strings are computed  *)
(* as JavaScript computes them.                                            *)
(***************************************************************************)
EXTENDS Integers, Sequences, FiniteSets, TLC

(***************************************************************************)
(* Bounds of the model.                                                    *)
(***************************************************************************)
\* rule ids nanoid() hands out before createRule is no longer called
MaxRules == 2
\* the clock of datetime('now') stops ticking at this value
MaxClock == 1
\* email ids nanoid() hands out before a sync is no longer started
MaxEmailIds == 2

\* the concurrent applyRulesToEmail invocations
Passes == {"p1", "p2"}

(***************************************************************************)
(* JavaScript strings.                                                     *)
(***************************************************************************)
\* the characters used, in UTF-16 code unit order
Alphabet == <<" ", "(", "-", ".", "0", "1", "2", "3", "4", "5", "6", "7", "8",
              "9", ":", "@", "A", "B", "F", "S", "T", "Z",
              "a", "b", "c", "d", "e", "f", "g", "h", "i", "k", "l", "m", "n",
              "o", "p", "r", "s", "t", "u", "v", "x", "z", "|">>

Ord(c) == CHOOSE i \in 1..Len(Alphabet) : Alphabet[i] = c

LowerChar(c) ==
  CASE c = "A" -> "a"
    [] c = "B" -> "b"
    [] c = "F" -> "f"
    [] c = "S" -> "s"
    [] c = "T" -> "t"
    [] c = "Z" -> "z"
    [] OTHER -> c

\* String.prototype.toLowerCase
toLowerCase(s) == [i \in 1..Len(s) |-> LowerChar(s[i])]

\* String.prototype.startsWith
startsWith(s, t) == Len(t) <= Len(s) /\ SubSeq(s, 1, Len(t)) = t

\* String.prototype.endsWith
endsWith(s, t) == Len(t) <= Len(s) /\ SubSeq(s, Len(s) - Len(t) + 1, Len(s)) = t

\* String.prototype.includes
includes(s, t) ==
  \E i \in 0..(Len(s) - Len(t)) : SubSeq(s, i + 1, i + Len(t)) = t

\* s < t on strings: by code units, a proper prefix being smaller
StrLess(s, t) ==
  \E i \in 1..(Len(t)) :
     /\ i - 1 <= Len(s)
     /\ SubSeq(s, 1, i - 1) = SubSeq(t, 1, i - 1)
     /\ \/ Len(s) = i - 1
        \/ Len(s) >= i /\ Ord(s[i]) < Ord(t[i])

\* the category ids of the classifier and of the categories table
financial == <<"f", "i", "n", "a", "n", "c", "i", "a", "l">>
hr == <<"h", "r">>
marketing == <<"m", "a", "r", "k", "e", "t", "i", "n", "g">>
important == <<"i", "m", "p", "o", "r", "t", "a", "n", "t">>
social == <<"s", "o", "c", "i", "a", "l">>
shopping == <<"s", "h", "o", "p", "p", "i", "n", "g">>
travel == <<"t", "r", "a", "v", "e", "l">>
bills == <<"b", "i", "l", "l", "s">>
uncategorized == <<"u", "n", "c", "a", "t", "e", "g", "o", "r", "i", "z", "e", "d">>

\* the ids of the categories table: the eight classifier categories and
\* 'uncategorized'
CategoryIds ==
  {financial, hr, marketing, important, social, shopping, travel, bills,
   uncategorized}

\* a category text that names no configured category
bogus == <<"x">>

\* SQL NULL and a JavaScript undefined column value
NULL == {}

\* OrEmpty as it would be if an undefined field were joined as text
OrEmptyUndefined(o) ==
  IF o = {} THEN <<"u", "n", "d", "e", "f", "i", "n", "e", "d">>
  ELSE CHOOSE t \in o : TRUE

\* an optional string is a set: {} is undefined and {s} is the string s
OrEmpty(o) == IF o = {} THEN <<>> ELSE CHOOSE t \in o : TRUE

(***************************************************************************)
(* The remote mailbox of the one account: the provider's messages, whose   *)
(* content never changes.  A stored email row refers to its message by     *)
(* messageId and takes its from address, subject and date from here.       *)
(*                                                                         *)
(* Messages 1 and 2 are the ones a sync fetches; a mailbox (InitMailbox)   *)
(* holds messages 1, 2, 3, ...  The cleanup scans read further messages:   *)
(*   21..28     near-duplicates and look-alikes                            *)
(*   31..36     newsletters of the sender domains s and n                  *)
(*   41, 42     a message with large attachments, an old receipt           *)
(*   101, ...   the issues of one newsletter                               *)
(***************************************************************************)
Messages == {1, 2}

\* the most issues of the newsletter in a corpus
MaxCorpus == 60

DuplicateMessages == 21..28

SubscriptionMessages == 31..36

Newsletters == 101..(100 + MaxCorpus)

Repeat(c, n) == [i \in 1..n |-> c]

MsgFrom(m) ==
  CASE m \in {2, 24} -> <<"c", "@", "d">>
    [] m = 22 -> <<"A", "@", "B">>
    [] m \in {31, 33, 36} -> <<"x", "@", "s">>
    [] m = 32 -> <<"z", "@", "S">>
    [] m \in {34, 35} -> <<"x", "@", "n">>
    [] m > 100 -> <<"n", "@", "s">>
    [] OTHER -> <<"a", "@", "b">>

\* the snippet column, NULL for most messages; the snippets of 25 and 26
\* differ after their 50th character, that of 27 within it
MsgSnippet(m) ==
  CASE m = 22 -> {<<>>}
    [] m = 23 -> {<<"c", "@", "d", "|", "T">>}
    [] m = 24 -> {<<"T">>}
    [] m = 25 -> {Repeat("A", 50) \o <<"B">>}
    [] m = 26 -> {Repeat("a", 50) \o <<"S">>}
    [] m = 27 -> {Repeat("a", 49) \o <<"B", "B">>}
    [] OTHER -> {}

\* the byte sizes of the attachment descriptors of the message
\* the addresses of the To header: the account's own address
MsgTo(m) == << <<"m", "e", "@", "b">> >>

\* the text part of the message; the messages used have none
MsgBody(m) == {<<>>}

MsgAttachmentSizes(m) ==
  CASE m = 1 -> <<12>>
    [] m = 41 -> <<5242879, 1>>
    [] OTHER -> <<>>

\* the number of attachment descriptors of the message
MsgAttachments(m) == Len(MsgAttachmentSizes(m))

\* the size column
MsgSize(m) == IF m = 1 THEN 12 ELSE 0

\* the first link of the List-Unsubscribe header, null ({}) without one;
\* message 36 comes from a newsletter's domain without the header
MsgUnsubscribeLink(m) ==
  IF m = 3 \/ m \in 31..35 \/ m > 100 THEN {<<"h">>} ELSE {}

\* hasUnsubscribe: !!unsubscribeLink
MsgHasUnsubscribe(m) == MsgUnsubscribeLink(m) \notin {{}, {<<>>}}

Min(a, b) == IF a < b THEN a ELSE b

(***************************************************************************)
(* JavaScript conversions between strings, numbers and booleans.  A number *)
(* that may be NaN is a set: {} is NaN and {n} is n.                       *)
(***************************************************************************)
Digits == <<"0", "1", "2", "3", "4", "5", "6", "7", "8", "9">>

DigitChar(d) == Digits[d + 1]

IsDigit(c) == \E d \in 0..9 : Digits[d + 1] = c

DigitVal(c) == CHOOSE d \in 0..9 : Digits[d + 1] = c

\* String(n) of a natural number
RECURSIVE NumToStr(_)
NumToStr(n) ==
  IF n < 10 THEN <<DigitChar(n)>>
  ELSE Append(NumToStr(n \div 10), DigitChar(n % 10))

\* a day number as text of three digits, as toISOString has a fixed width
DayStr(d) ==
  <<DigitChar(d \div 100), DigitChar((d \div 10) % 10), DigitChar(d % 10)>>

\* the instants dated: whole hours from 2024-01-01T00:00Z, over MaxDays days
MaxDays == 2

Instants == 0..(24 * MaxDays - 1)

Pad2(n) == <<DigitChar(n \div 10), DigitChar(n % 10)>>

\* Date.prototype.toISOString of the instant h: YYYY-MM-DDTHH:mm:ss.sssZ
toISOString(h) ==
  <<"2", "0", "2", "4", "-", "0", "1", "-">> \o Pad2(h \div 24 + 1) \o <<"T">>
    \o Pad2(h % 24) \o <<":", "0", "0", ":", "0", "0", ".", "0", "0", "0", "Z">>

MsgSubject(m) ==
  CASE m \in {1, 21, 28} -> <<"S", "t">>
    [] m = 22 -> <<" ", "S", "T", " ">>
    [] m = 23 -> <<"S">>
    [] m = 24 -> <<"S", "|", "a", "@", "b">>
    [] m > 40 -> NumToStr(m)
    [] OTHER -> <<>>

\* the day the message is dated, for the messages the cleanup scans read
MsgDay(m) ==
  CASE m = 31 -> 480
    [] m = 32 -> 500
    [] m = 33 -> 510
    [] m = 34 -> 490
    [] m = 35 -> 511
    [] m = 36 -> 520
    [] m = 41 -> 550
    [] m = 42 -> 234
    [] m > 100 -> 250 + m
    [] OTHER -> m

\* toISOString dates, shortened to a number; no two messages share one
MsgDate(m) ==
  IF m = 1 THEN <<"2">> ELSE IF m = 2 THEN <<"1">>
  ELSE IF m <= 20 THEN NumToStr(m) ELSE DayStr(MsgDay(m))

RECURSIVE DigitsVal(_)
DigitsVal(s) ==
  IF s = <<>> THEN 0
  ELSE 10 * DigitsVal(SubSeq(s, 1, Len(s) - 1)) + DigitVal(s[Len(s)])

\* Number(s) of a string: the empty string is 0, a run of digits is its
\* value, any other text of the alphabet is NaN
StrToNum(s) ==
  IF \A i \in 1..Len(s) : IsDigit(s[i]) THEN {DigitsVal(s)} ELSE {}

\* String(v) of a field value
String(fv) ==
  CASE fv.t = "str" -> fv.v
    [] fv.t = "num" -> NumToStr(fv.v)
    [] fv.t = "bool" -> IF fv.v THEN <<"t", "r", "u", "e">>
                        ELSE <<"f", "a", "l", "s", "e">>

\* Number(v) of a field value
Number(fv) ==
  CASE fv.t = "str" -> StrToNum(fv.v)
    [] fv.t = "num" -> {fv.v}
    [] fv.t = "bool" -> IF fv.v THEN {1} ELSE {0}

\* new RegExp(pattern, 'i') throws on an unclosed group; the patterns used are
\* otherwise plain text, which .test finds anywhere, whatever the case
RegExpThrows(pattern) == \E i \in 1..Len(pattern) : pattern[i] = "("

RegExpTest(pattern, s) == includes(toLowerCase(s), toLowerCase(pattern))

(***************************************************************************)
(* RulesEngine: conditions.                                                *)
(***************************************************************************)
\* the email object a caller passes: a stored row with the message's content
EmailObject(row) ==
  [id |-> row.id, messageId |-> row.messageId, category |-> row.category,
   from |-> MsgFrom(row.messageId), subject |-> MsgSubject(row.messageId),
   to |-> MsgTo(row.messageId), snippet |-> MsgSnippet(row.messageId),
   body |-> MsgBody(row.messageId),
   date |-> MsgDate(row.messageId), size |-> MsgSize(row.messageId),
   attachments |-> MsgAttachments(row.messageId)]

Fields ==
  {"from", "to", "subject", "body", "category", "date", "hasAttachment", "size"}

\* Array.prototype.join(' ') of a list of strings
RECURSIVE JoinSpace(_)
JoinSpace(parts) ==
  IF parts = <<>> THEN <<>>
  ELSE IF Len(parts) = 1 THEN parts[1]
  ELSE parts[1] \o <<" ">> \o JoinSpace(Tail(parts))

\* the first switch of matchesCondition: the field's value
FieldValue(email, field) ==
  CASE field = "from" -> [t |-> "str", v |-> toLowerCase(email.from)]
    [] field = "to" -> [t |-> "str", v |-> toLowerCase(JoinSpace(email.to))]
    [] field = "subject" -> [t |-> "str", v |-> toLowerCase(email.subject)]
    [] field = "body" ->
         [t |-> "str",
          v |-> toLowerCase(IF OrEmpty(email.body) # <<>>
                            THEN OrEmpty(email.body)
                            ELSE OrEmpty(email.snippet))]
    [] field = "category" -> [t |-> "str", v |-> toLowerCase(email.category)]
    [] field = "date" -> [t |-> "str", v |-> email.date]
    [] field = "hasAttachment" -> [t |-> "bool", v |-> email.attachments > 0]
    [] field = "size" -> [t |-> "num", v |-> email.size]

\* matchesCondition as it would be if the catch of 'regex' returned true
matchesConditionCatchTrue(email, condition) ==
  IF condition.field \notin Fields THEN FALSE
  ELSE
    LET fieldValue == FieldValue(email, condition.field)
        conditionValue == toLowerCase(condition.value)
        op == condition.operator
    IN CASE op = "contains" -> includes(String(fieldValue), conditionValue)
         [] op = "equals" -> String(fieldValue) = conditionValue
         [] op = "startsWith" -> startsWith(String(fieldValue), conditionValue)
         [] op = "endsWith" -> endsWith(String(fieldValue), conditionValue)
         [] op = "regex" ->
              IF RegExpThrows(condition.value) THEN TRUE
              ELSE RegExpTest(condition.value, String(fieldValue))
         [] op = "before" -> StrLess(String(fieldValue), conditionValue)
         [] op = "after" -> StrLess(conditionValue, String(fieldValue))
         [] op = "greaterThan" ->
              \E a \in Number(fieldValue) : \E b \in StrToNum(condition.value) : a > b
         [] op = "lessThan" ->
              \E a \in Number(fieldValue) : \E b \in StrToNum(condition.value) : a < b
         [] OTHER -> FALSE

\* matchesCondition as it would be if the default of the operator switch
\* returned true
matchesConditionDefaultTrue(email, condition) ==
  IF condition.field \notin Fields THEN FALSE
  ELSE
    LET fieldValue == FieldValue(email, condition.field)
        conditionValue == toLowerCase(condition.value)
        op == condition.operator
    IN CASE op = "contains" -> includes(String(fieldValue), conditionValue)
         [] op = "equals" -> String(fieldValue) = conditionValue
         [] op = "startsWith" -> startsWith(String(fieldValue), conditionValue)
         [] op = "endsWith" -> endsWith(String(fieldValue), conditionValue)
         [] op = "regex" ->
              IF RegExpThrows(condition.value) THEN FALSE
              ELSE RegExpTest(condition.value, String(fieldValue))
         [] op = "before" -> StrLess(String(fieldValue), conditionValue)
         [] op = "after" -> StrLess(conditionValue, String(fieldValue))
         [] op = "greaterThan" ->
              \E a \in Number(fieldValue) : \E b \in StrToNum(condition.value) : a > b
         [] op = "lessThan" ->
              \E a \in Number(fieldValue) : \E b \in StrToNum(condition.value) : a < b
         [] OTHER -> TRUE

matchesCondition(email, condition) ==
  IF condition.field \notin Fields THEN FALSE
  ELSE
    LET fieldValue == FieldValue(email, condition.field)
        conditionValue == toLowerCase(condition.value)
        op == condition.operator
    IN CASE op = "contains" -> includes(String(fieldValue), conditionValue)
         [] op = "equals" -> String(fieldValue) = conditionValue
         [] op = "startsWith" -> startsWith(String(fieldValue), conditionValue)
         [] op = "endsWith" -> endsWith(String(fieldValue), conditionValue)
         [] op = "regex" ->
              IF RegExpThrows(condition.value) THEN FALSE
              ELSE RegExpTest(condition.value, String(fieldValue))
         [] op = "before" -> StrLess(String(fieldValue), conditionValue)
         [] op = "after" -> StrLess(conditionValue, String(fieldValue))
         [] op = "greaterThan" ->
              \E a \in Number(fieldValue) : \E b \in StrToNum(condition.value) : a > b
         [] op = "lessThan" ->
              \E a \in Number(fieldValue) : \E b \in StrToNum(condition.value) : a < b
         [] OTHER -> FALSE

matchesConditions(email, conditions) ==
  \A i \in 1..Len(conditions) : matchesCondition(email, conditions[i])

(***************************************************************************)
(* State.                                                                  *)
(***************************************************************************)
VARIABLES
  now,         \* the clock datetime('now') reads, in seconds
  rules,       \* the rules table, in rowid order
  nextRuleId,  \* the next id nanoid() gives a rule
  emails,      \* the emails table: a set of rows
  nextEmailId, \* the next id nanoid() gives an email
  provider,    \* whether providers holds the account's provider
  pass,        \* the applyRulesToEmail invocations
  running,     \* the handler that holds the thread, or "none"
  ret,         \* what the last handler call returned or threw
  deleted,     \* history: the ids of created rules deleteRule completed for
  provLog,     \* history: the provider calls issued, <<type, email id>>
  hits,        \* history: per rule id, the evaluations that matched it
  nApply,      \* history: the applyRulesToEmail calls started
  overlap,     \* history: a pass started while another was suspended
  sync,        \* the accounts:sync handler
  cleanup,     \* the CleanupService.executeAction call
  labelled,    \* history: the email ids classifyNewEmails has labelled
  evaluated    \* history: the email ids applyRulesToEmail was called with

vars ==
  <<now, rules, nextRuleId, emails, nextEmailId, provider, pass, running, ret,
    deleted, provLog, hits, nApply, overlap, sync, cleanup, labelled,
    evaluated>>

\* the history variables
hist == <<deleted, provLog, hits, nApply, overlap, labelled, evaluated>>

(***************************************************************************)
(* DatabaseService: the rules table.  A row holds the columns id, enabled, *)
(* conditions, actions, priority, hit_count, last_hit and created_at (name,*)
(* provider and updated_at are read by nothing modelled here).             *)
(***************************************************************************)
RuleIdsOf(tbl) == {tbl[i].id : i \in 1..Len(tbl)}

\* getRule: the row with that id, as a set of at most one row
getRule(tbl, id) == {tbl[i] : i \in {j \in 1..Len(tbl) : tbl[j].id = id}}

\* ORDER BY priority DESC, created_at: row i comes before row j; rows that
\* tie on both keys come out in rowid order
RowBefore(tbl, i, j) ==
  \/ tbl[i].priority > tbl[j].priority
  \/ /\ tbl[i].priority = tbl[j].priority
     /\ \/ tbl[i].created_at < tbl[j].created_at
        \/ tbl[i].created_at = tbl[j].created_at /\ i < j

\* getRules: SELECT * FROM rules ORDER BY priority DESC, created_at
getRules(tbl) ==
  LET n == Len(tbl)
      rank(i) == Cardinality({j \in 1..n : RowBefore(tbl, j, i)}) + 1
  IN [k \in 1..n |-> tbl[CHOOSE i \in 1..n : rank(i) = k]]

\* the row INSERT OR REPLACE writes for the rule object: the statement names
\* id, name, enabled, conditions, actions, provider, priority and updated_at,
\* so hit_count, last_hit and created_at take their column defaults
SavedRow(rule, t) ==
  [id |-> rule.id, enabled |-> rule.enabled, conditions |-> rule.conditions,
   actions |-> rule.actions, priority |-> rule.priority,
   hit_count |-> 0, last_hit |-> NULL, created_at |-> t]

\* saveRule: INSERT OR REPLACE deletes the row with the same id and inserts
\* the new row with a new rowid
saveRule(tbl, rule, t) ==
  Append(SelectSeq(tbl, LAMBDA r : r.id # rule.id), SavedRow(rule, t))

\* deleteRule of DatabaseService: DELETE FROM rules WHERE id = ?
dbDeleteRule(tbl, id) == SelectSeq(tbl, LAMBDA r : r.id # id)

\* { ...a, ...b }
Spread(a, b) ==
  [f \in DOMAIN a \cup DOMAIN b |-> IF f \in DOMAIN b THEN b[f] ELSE a[f]]

(***************************************************************************)
(* DatabaseService: the emails table.  A row holds id, messageId, category *)
(* and isRead; the other columns are the message's content.                *)
(***************************************************************************)
EmailIdsOf(tbl) == {r.id : r \in tbl}

\* getEmail: the row with that id, as a set of at most one row
getEmail(tbl, id) == {r \in tbl : r.id = id}

\* UPDATE emails SET category = ? WHERE id = ?
updateEmailCategory(tbl, id, category) ==
  {IF r.id = id THEN [r EXCEPT !.category = category] ELSE r : r \in tbl}

\* UPDATE emails SET is_read = ? WHERE id IN (...)
markEmailsRead(tbl, ids, read) ==
  {IF r.id \in ids THEN [r EXCEPT !.isRead = read] ELSE r : r \in tbl}

\* DELETE FROM emails WHERE id IN (...)
deleteEmails(tbl, ids) == {r \in tbl : r.id \notin ids}

\* saveEmail: INSERT OR REPLACE replaces the row with the same id and the row
\* with the same (account_id, message_id)
saveEmail(tbl, email) ==
  {r \in tbl : r.id # email.id /\ r.messageId # email.messageId} \cup {email}

(***************************************************************************)
(* Initial state: a new database, no handler started.                      *)
(***************************************************************************)
\* expected, executed and failed are history: the actions of the snapshot's
\* matching rules, the actions dispatched, and whether one of them failed;
\* so are start, the email object as it was passed in, and order, the ids of
\* the rules whose actions were appended
IdlePass ==
  [pc |-> "idle", email |-> [id |-> 0], rules |-> <<>>, actions |-> <<>>,
   appliedActions |-> <<>>, expected |-> <<>>, executed |-> <<>>,
   failed |-> FALSE, start |-> [id |-> 0], order |-> <<>>]

IdleSync == [pc |-> "idle", status |-> "none", todo |-> <<>>]

IdleCleanup ==
  [pc |-> "idle", type |-> "none", emailIds |-> <<>>, at |-> 1,
   processed |-> 0, skipped |-> 0, links |-> <<>>]

Init ==
  /\ now = 0
  /\ rules = <<>>
  /\ nextRuleId = 1
  /\ emails = {}
  /\ nextEmailId = 1
  /\ provider = FALSE
  /\ pass = [p \in Passes |-> IdlePass]
  /\ running = "none"
  /\ ret = [op |-> "none"]
  /\ deleted = {}
  /\ provLog = {}
  /\ hits = [id \in 1..MaxRules |-> 0]
  /\ nApply = 0
  /\ overlap = FALSE
  /\ sync = IdleSync
  /\ cleanup = IdleCleanup
  /\ labelled = {}
  /\ evaluated = {}

\* a handler may start, or go on after an await, when no handler runs
Free == running = "none"

\* a second passes on the clock
Tick ==
  /\ Free
  /\ now < MaxClock
  /\ now' = now + 1
  /\ ret' = [op |-> "tick"]
  /\ UNCHANGED <<rules, nextRuleId, emails, nextEmailId, provider, pass,
                 running, hist, sync, cleanup>>

(***************************************************************************)
(* RulesEngine: createRule, updateRule, deleteRule.  None of them awaits   *)
(* between its reads and its write.                                        *)
(***************************************************************************)
\* createRule as it would be if a new rule started disabled
createRuleDisabled(conditions, actions, priority) ==
  /\ Free
  /\ nextRuleId <= MaxRules
  /\ LET rule == [id |-> nextRuleId, enabled |-> FALSE,
                  conditions |-> conditions, actions |-> actions,
                  priority |-> priority, hitCount |-> 0]
     IN /\ rules' = saveRule(rules, rule, now)
        /\ ret' = [op |-> "createRule", id |-> nextRuleId]
  /\ nextRuleId' = nextRuleId + 1
  /\ UNCHANGED <<now, emails, nextEmailId, provider, pass, running, hist, sync,
                 cleanup>>

createRule(conditions, actions, priority) ==
  /\ Free
  /\ nextRuleId <= MaxRules
  /\ LET rule == [id |-> nextRuleId, enabled |-> TRUE,
                  conditions |-> conditions, actions |-> actions,
                  priority |-> priority, hitCount |-> 0]
     IN /\ rules' = saveRule(rules, rule, now)
        /\ ret' = [op |-> "createRule", id |-> nextRuleId]
  /\ nextRuleId' = nextRuleId + 1
  /\ UNCHANGED <<now, emails, nextEmailId, provider, pass, running, hist, sync,
                 cleanup>>

updateRule(ruleId, updates) ==
  /\ Free
  /\ IF getRule(rules, ruleId) = {}
     THEN /\ ret' = [op |-> "updateRule", id |-> ruleId,
                     error |-> "Rule not found"]
          /\ UNCHANGED rules
     ELSE LET existing == CHOOSE r \in getRule(rules, ruleId) : TRUE
              updated == Spread(existing, updates)
          IN /\ rules' = saveRule(rules, updated, now)
             /\ ret' = [op |-> "updateRule", id |-> ruleId, error |-> "none"]
  /\ UNCHANGED <<now, nextRuleId, emails, nextEmailId, provider, pass, running,
                 hist, sync, cleanup>>

deleteRule(ruleId) ==
  /\ Free
  /\ rules' = dbDeleteRule(rules, ruleId)
  /\ deleted' = deleted \cup ({ruleId} \cap 1..(nextRuleId - 1))
  /\ ret' = [op |-> "deleteRule", id |-> ruleId]
  /\ UNCHANGED <<now, nextRuleId, emails, nextEmailId, provider, pass, running,
                 provLog, hits, nApply, overlap, labelled, evaluated, sync,
                 cleanup>>

(***************************************************************************)
(* RulesEngine.applyRulesToEmail, one action per stretch of code between   *)
(* two awaits or loop heads.  pass[p].pc is where invocation p stands:     *)
(*   "loop"     at the head of `for (const rule of rules)`                 *)
(*   "exec"     at the head of `for (const action of actions)`             *)
(*   "provider" awaiting a providerManager call of executeActions          *)
(*   "resume"   awaiting executeActions in applyRulesToEmail               *)
(***************************************************************************)
\* rules.sort((a, b) => b.priority - a.priority): a stable sort
JsSortByPriority(rs) ==
  LET n == Len(rs)
      before(i, j) == \/ rs[i].priority > rs[j].priority
                      \/ rs[i].priority = rs[j].priority /\ i < j
      rank(i) == Cardinality({j \in 1..n : before(j, i)}) + 1
  IN [k \in 1..n |-> rs[CHOOSE i \in 1..n : rank(i) = k]]

\* this.db.getRules().filter(r => r.enabled), then the sort
EnabledRulesByPriority(tbl) ==
  JsSortByPriority(SelectSeq(getRules(tbl), LAMBDA r : r.enabled))

\* rule.hitCount + 1: the row object has hit_count and no hitCount
HitCountPlusOne(rule) ==
  IF "hitCount" \in DOMAIN rule THEN {rule.hitCount + 1} ELSE {}

\* the object applyRulesToEmail hands to saveRule on a match
HitRule(rule, t) ==
  Spread(rule, [hitCount |-> HitCountPlusOne(rule), lastHit |-> t])

ProviderTypes == {"move", "archive", "delete"}

StoreTypes == {"markRead", "markUnread", "categorize"}

\* the actions of the rules of rs whose conditions the email satisfies
RECURSIVE MatchingActions(_, _)
MatchingActions(email, rs) ==
  IF rs = <<>> THEN <<>>
  ELSE (IF matchesConditions(email, Head(rs).conditions)
        THEN Head(rs).actions ELSE <<>>)
       \o MatchingActions(email, Tail(rs))

ApplyStart(p, row) ==
  /\ Free
  /\ pass[p].pc = "idle"
  /\ row \in emails
  /\ pass' = [pass EXCEPT ![p] =
       [pc |-> "loop", email |-> EmailObject(row),
        rules |-> EnabledRulesByPriority(rules), actions |-> <<>>,
        appliedActions |-> <<>>,
        expected |-> MatchingActions(EmailObject(row),
                                     EnabledRulesByPriority(rules)),
        executed |-> <<>>, failed |-> FALSE,
        start |-> EmailObject(row), order |-> <<>>]]
  /\ running' = p
  /\ ret' = [op |-> "step"]
  /\ nApply' = nApply + 1
  /\ overlap' = (overlap \/ \E q \in Passes : pass[q].pc # "idle")
  /\ evaluated' = evaluated \cup {row.id}
  /\ UNCHANGED <<now, rules, nextRuleId, emails, nextEmailId, provider,
                 deleted, provLog, hits, labelled, sync, cleanup>>

\* ApplyLoop as it would be if the loop stopped at the first matching rule
ApplyLoopFirstMatch(p) ==
  /\ running = p
  /\ pass[p].pc = "loop"
  /\ IF pass[p].rules = <<>>
     THEN /\ ret' = [op |-> "applyRulesToEmail", pass |-> p, threw |-> FALSE,
                     value |-> pass[p].appliedActions,
                     expected |-> pass[p].expected,
                     executed |-> pass[p].executed,
                     failed |-> pass[p].failed,
                     email |-> pass[p].start, order |-> pass[p].order]
          /\ pass' = [pass EXCEPT ![p] = IdlePass]
          /\ running' = "none"
          /\ UNCHANGED <<rules, hits>>
     ELSE LET rule == Head(pass[p].rules)
          IN /\ ret' = [op |-> "step"]
             /\ UNCHANGED running
             /\ IF matchesConditions(pass[p].email, rule.conditions)
                THEN /\ rules' = saveRule(rules, HitRule(rule, now), now)
                     /\ hits' = [hits EXCEPT ![rule.id] = @ + 1]
                     /\ pass' = [pass EXCEPT
                          ![p].pc = "exec",
                          ![p].rules = <<>>,
                          ![p].actions = rule.actions,
                          ![p].appliedActions = @ \o rule.actions,
                          ![p].order = Append(@, rule.id)]
                ELSE /\ pass' = [pass EXCEPT ![p].rules = Tail(@)]
                     /\ UNCHANGED <<rules, hits>>
  /\ UNCHANGED <<now, nextRuleId, emails, nextEmailId, provider, deleted,
                 provLog, nApply, overlap, labelled, evaluated, sync, cleanup>>

\* the head of the rule loop: the next rule is tested and, on a match, its
\* actions are appended and the hit is saved; after the last rule the call
\* returns appliedActions
ApplyLoop(p) ==
  /\ running = p
  /\ pass[p].pc = "loop"
  /\ IF pass[p].rules = <<>>
     THEN /\ ret' = [op |-> "applyRulesToEmail", pass |-> p, threw |-> FALSE,
                     value |-> pass[p].appliedActions,
                     expected |-> pass[p].expected,
                     executed |-> pass[p].executed,
                     failed |-> pass[p].failed,
                     email |-> pass[p].start, order |-> pass[p].order]
          /\ pass' = [pass EXCEPT ![p] = IdlePass]
          /\ running' = "none"
          /\ UNCHANGED <<rules, hits>>
     ELSE LET rule == Head(pass[p].rules)
          IN /\ ret' = [op |-> "step"]
             /\ UNCHANGED running
             /\ IF matchesConditions(pass[p].email, rule.conditions)
                THEN /\ rules' = saveRule(rules, HitRule(rule, now), now)
                     /\ hits' = [hits EXCEPT ![rule.id] = @ + 1]
                     /\ pass' = [pass EXCEPT
                          ![p].pc = "exec",
                          ![p].rules = Tail(@),
                          ![p].actions = rule.actions,
                          ![p].appliedActions = @ \o rule.actions,
                          ![p].order = Append(@, rule.id)]
                ELSE /\ pass' = [pass EXCEPT ![p].rules = Tail(@)]
                     /\ UNCHANGED <<rules, hits>>
  /\ UNCHANGED <<now, nextRuleId, emails, nextEmailId, provider, deleted,
                 provLog, nApply, overlap, labelled, evaluated, sync, cleanup>>

\* ApplyExec as it would be if a categorize action also changed the email
\* object the later rules are matched against
ApplyExecRefreshed(p, storeOk) ==
  /\ running = p
  /\ pass[p].pc = "exec"
  /\ ret' = [op |-> "step"]
  /\ IF pass[p].actions = <<>>
     THEN /\ pass' = [pass EXCEPT ![p].pc = "resume"]
          /\ running' = "none"
          /\ UNCHANGED <<emails, provLog>>
     ELSE LET action == Head(pass[p].actions)
              id == pass[p].email.id
          IN IF action.type \in ProviderTypes
             THEN /\ pass' = [pass EXCEPT ![p].pc = "provider",
                                          ![p].executed = Append(@, action)]
                  /\ running' = "none"
                  /\ provLog' = IF provider /\ getEmail(emails, id) # {}
                                THEN provLog \cup {<<action.type, id>>}
                                ELSE provLog
                  /\ UNCHANGED emails
             ELSE /\ pass' = [pass EXCEPT
                          ![p].actions = Tail(@),
                          ![p].executed = Append(@, action),
                          ![p].failed =
                             @ \/ (~storeOk /\ action.type \in StoreTypes),
                          ![p].email.category =
                             IF storeOk /\ action.type = "categorize"
                             THEN action.value ELSE @]
                  /\ UNCHANGED <<running, provLog>>
                  /\ emails' =
                       CASE ~storeOk -> emails
                         [] action.type = "markRead" ->
                              markEmailsRead(emails, {id}, TRUE)
                         [] action.type = "markUnread" ->
                              markEmailsRead(emails, {id}, FALSE)
                         [] action.type = "categorize" ->
                              updateEmailCategory(emails, id, action.value)
                         [] OTHER -> emails
  /\ UNCHANGED <<now, rules, nextRuleId, nextEmailId, provider, deleted, hits,
                 nApply, overlap, labelled, evaluated, sync, cleanup>>

\* the head of the action loop of executeActions; storeOk is whether the
\* store write of a markRead, markUnread or categorize action succeeds (a
\* throw is caught by the try around the switch)
ApplyExec(p, storeOk) ==
  /\ running = p
  /\ pass[p].pc = "exec"
  /\ ret' = [op |-> "step"]
  /\ IF pass[p].actions = <<>>
     THEN /\ pass' = [pass EXCEPT ![p].pc = "resume"]
          /\ running' = "none"
          /\ UNCHANGED <<emails, provLog>>
     ELSE LET action == Head(pass[p].actions)
              id == pass[p].email.id
          IN IF action.type \in ProviderTypes
             THEN /\ pass' = [pass EXCEPT ![p].pc = "provider",
                                          ![p].executed = Append(@, action)]
                  /\ running' = "none"
                  /\ provLog' = IF provider /\ getEmail(emails, id) # {}
                                THEN provLog \cup {<<action.type, id>>}
                                ELSE provLog
                  /\ UNCHANGED emails
             ELSE /\ pass' = [pass EXCEPT
                          ![p].actions = Tail(@),
                          ![p].executed = Append(@, action),
                          ![p].failed =
                             @ \/ (~storeOk /\ action.type \in StoreTypes)]
                  /\ UNCHANGED <<running, provLog>>
                  /\ emails' =
                       CASE ~storeOk -> emails
                         [] action.type = "markRead" ->
                              markEmailsRead(emails, {id}, TRUE)
                         [] action.type = "markUnread" ->
                              markEmailsRead(emails, {id}, FALSE)
                         [] action.type = "categorize" ->
                              updateEmailCategory(emails, id, action.value)
                         [] OTHER -> emails
  /\ UNCHANGED <<now, rules, nextRuleId, nextEmailId, provider, deleted, hits,
                 nApply, overlap, labelled, evaluated, sync, cleanup>>

\* ApplyProviderReturn as it would be without the try around the switch of
\* executeActions: a rejection ends the pass and rejects applyRulesToEmail
ApplyProviderReturnUncaught(p, ok) ==
  /\ Free
  /\ pass[p].pc = "provider"
  /\ LET action == Head(pass[p].actions)
         id == pass[p].email.id
         resolved == ok \/ ~provider
     IN /\ emails' = IF action.type = "delete" /\ resolved
                     THEN deleteEmails(emails, {id})
                     ELSE emails
        /\ IF resolved
           THEN /\ pass' = [pass EXCEPT ![p].pc = "exec",
                                        ![p].actions = Tail(@)]
                /\ running' = p
                /\ ret' = [op |-> "step"]
           ELSE /\ pass' = [pass EXCEPT ![p] = IdlePass]
                /\ UNCHANGED running
                /\ ret' = [op |-> "applyRulesToEmail", pass |-> p,
                           threw |-> TRUE, value |-> <<>>,
                           expected |-> pass[p].expected,
                           executed |-> pass[p].executed, failed |-> TRUE,
                           email |-> pass[p].start, order |-> pass[p].order]
  /\ UNCHANGED <<now, rules, nextRuleId, nextEmailId, provider, hist, sync,
                 cleanup>>

\* the awaited providerManager call settles: with no provider registered or
\* the row gone nothing is sent and it resolves; otherwise the remote call
\* resolves (ok) or rejects, and a rejection is caught in executeActions.
\* deleteEmail of the manager deletes the row once the remote call resolved.
ApplyProviderReturn(p, ok) ==
  /\ Free
  /\ pass[p].pc = "provider"
  /\ LET action == Head(pass[p].actions)
         id == pass[p].email.id
         resolved == ok \/ ~provider
     IN emails' = IF action.type = "delete" /\ resolved
                  THEN deleteEmails(emails, {id})
                  ELSE emails
  /\ pass' = [pass EXCEPT ![p].pc = "exec", ![p].actions = Tail(@),
                          ![p].failed = @ \/ (provider /\ ~ok)]
  /\ running' = p
  /\ ret' = [op |-> "step"]
  /\ UNCHANGED <<now, rules, nextRuleId, nextEmailId, provider, hist, sync,
                 cleanup>>

\* `await this.executeActions(...)` resumes the rule loop
ApplyResume(p) ==
  /\ Free
  /\ pass[p].pc = "resume"
  /\ pass' = [pass EXCEPT ![p].pc = "loop"]
  /\ running' = p
  /\ ret' = [op |-> "step"]
  /\ UNCHANGED <<now, rules, nextRuleId, emails, nextEmailId, provider, hist,
                 sync, cleanup>>

(***************************************************************************)
(* RulesEngine.testRule.                                                   *)
(***************************************************************************)
\* the row limit of testRule's getEmails
TestLimit == 1000
\* the sample testRule returns
SampleLimit == 10

\* ORDER BY date DESC of a set of rows (a message has one row, and the
\* messages' dates differ): a row stands behind the rows with a later date
ByDateDesc(rows) ==
  LET dated == {<<r, MsgDate(r.messageId)>> : r \in rows}
      ranked == {<<p[1], Cardinality({q \in dated : StrLess(p[2], q[2])}) + 1>> :
                   p \in dated}
      n == Cardinality(rows)
  IN SubSeq([k \in 1..n |-> (CHOOSE p \in ranked : p[2] = k)[1]], 1, n)

\* getEmails({ limit }): SELECT * FROM emails ORDER BY date DESC LIMIT ?
getEmails(tbl, limit) ==
  LET all == ByDateDesc(tbl) IN SubSeq(all, 1, Min(limit, Len(all)))

(***************************************************************************)
(* CleanupService.findDuplicates.                                          *)
(***************************************************************************)
\* String.prototype.trim
RECURSIVE trim(_)
trim(s) ==
  IF s = <<>> THEN s
  ELSE IF Head(s) = " " THEN trim(Tail(s))
  ELSE IF s[Len(s)] = " " THEN trim(SubSeq(s, 1, Len(s) - 1))
  ELSE s

\* String.prototype.substring(0, n)
substring(s, n) == SubSeq(s, 1, Min(n, Len(s)))

\* Array.prototype.join('|')
RECURSIVE JoinBar(_)
JoinBar(parts) ==
  IF parts = <<>> THEN <<>>
  ELSE IF Len(parts) = 1 THEN parts[1]
  ELSE parts[1] \o <<"|">> \o JoinBar(Tail(parts))

\* the characters of the snippet that enter the key
SnippetPrefix == 50

\* the three parts of the grouping key of a row
KeyParts(row) ==
  <<trim(toLowerCase(MsgSubject(row.messageId))),
    toLowerCase(MsgFrom(row.messageId)),
    toLowerCase(substring(OrEmpty(MsgSnippet(row.messageId)), SnippetPrefix))>>

\* the hash key of a row
DuplicateKey(row) == JoinBar(KeyParts(row))

\* the hash keys of the rows of a list
DuplicateKeys(list) ==
  SubSeq([i \in 1..Len(list) |-> DuplicateKey(list[i])], 1, Len(list))

\* new Date(date).getTime() of a date text
getTime(date) == DigitsVal(date)

\* list.sort((a, b) => new Date(b.date).getTime() - new Date(a.date).getTime()):
\* a member stands behind the newer ones and, as Array.prototype.sort is
\* stable, behind the equally old ones that stood before it
SortNewestFirst(list) ==
  LET n == Len(list)
      time == SubSeq([i \in 1..n |-> getTime(MsgDate(list[i].messageId))], 1, n)
      rank == SubSeq([i \in 1..n |->
                        Cardinality({j \in 1..n :
                                       \/ time[j] > time[i]
                                       \/ time[j] = time[i] /\ j < i}) + 1],
                     1, n)
  IN SubSeq([k \in 1..n |-> list[CHOOSE i \in 1..n : rank[i] = k]], 1, n)

\* the limit of the scans of findDuplicates and findLargeAttachments
ScanLimit == 5000

\* the groups of findDuplicates, in the order the Map was filled
findDuplicates(tbl) ==
  LET all == getEmails(tbl, ScanLimit)
      key == DuplicateKeys(all)
      first == SelectSeq([i \in 1..Len(all) |-> i],
                         LAMBDA i : \A j \in 1..(i - 1) : key[j] # key[i])
      members(i) == SelectSeq([j \in 1..Len(all) |-> j],
                              LAMBDA j : key[j] = key[i])
      many == SelectSeq(first, LAMBDA i : Len(members(i)) > 1)
  IN [k \in 1..Len(many) |->
        [hash |-> key[many[k]],
         emails |-> SortNewestFirst([j \in 1..Len(members(many[k])) |->
                                       all[members(many[k])[j]]])]]

\* a call of findDuplicates; previous is history, the groups of the call
\* before when nothing happened in between
findDuplicatesCall ==
  /\ Free
  /\ ret' = [op |-> "findDuplicates", groups |-> findDuplicates(emails),
             previous |-> IF ret.op = "findDuplicates" THEN {ret.groups}
                          ELSE {}]
  /\ UNCHANGED <<now, rules, nextRuleId, emails, nextEmailId, provider, pass,
                 running, hist, sync, cleanup>>

(***************************************************************************)
(* CleanupService.findInactiveSubscriptions.                               *)
(***************************************************************************)
\* getEmails({ category }): ... WHERE category = ? ORDER BY date DESC
getEmailsByCategory(tbl, category) ==
  ByDateDesc({r \in tbl : r.category = category})

\* String.prototype.split('@')
RECURSIVE split(_)
split(s) ==
  IF \A i \in 1..Len(s) : s[i] # "@" THEN <<s>>
  ELSE LET at == CHOOSE i \in 1..Len(s) :
                   s[i] = "@" /\ \A j \in 1..(i - 1) : s[j] # "@"
       IN <<SubSeq(s, 1, at - 1)>> \o split(SubSeq(s, at + 1, Len(s)))

\* email.from.split('@')[1]?.toLowerCase() || email.from
SenderDomain(from) ==
  LET parts == split(from)
  IN IF Len(parts) >= 2 /\ parts[2] # <<>> THEN toLowerCase(parts[2])
     ELSE from

\* the sender domains of the rows of a list
SenderDomains(list) ==
  SubSeq([i \in 1..Len(list) |-> SenderDomain(MsgFrom(list[i].messageId))],
         1, Len(list))

\* the days without a read after which a subscription counts as inactive
InactiveDays == 90

\* findInactiveSubscriptions as it would be if one unread message sufficed
findInactiveSubscriptionsAnyUnread(tbl, day) ==
  LET ninetyDaysAgo == DayStr(day - InactiveDays)
      all == SelectSeq(getEmailsByCategory(tbl, marketing),
                       LAMBDA e : MsgHasUnsubscribe(e.messageId))
      domain == SenderDomains(all)
      first == SelectSeq([i \in 1..Len(all) |-> i],
                         LAMBDA i : \A j \in 1..(i - 1) : domain[j] # domain[i])
      senderEmails(i) ==
        SelectSeq(all, LAMBDA e : SenderDomain(MsgFrom(e.messageId)) = domain[i])
      allUnread(i) ==
        \E k \in 1..Len(senderEmails(i)) : ~senderEmails(i)[k].isRead
      newestEmail(i) == SortNewestFirst(senderEmails(i))[1]
      inactive == SelectSeq(first,
                    LAMBDA i : /\ allUnread(i)
                               /\ StrLess(MsgDate(newestEmail(i).messageId),
                                          ninetyDaysAgo))
  IN [k \in 1..Len(inactive) |-> newestEmail(inactive[k])]

\* the newest message of every inactive sender, in the order the Map of
\* senders was filled
findInactiveSubscriptions(tbl, day) ==
  LET ninetyDaysAgo == DayStr(day - InactiveDays)
      all == SelectSeq(getEmailsByCategory(tbl, marketing),
                       LAMBDA e : MsgHasUnsubscribe(e.messageId))
      domain == SenderDomains(all)
      first == SelectSeq([i \in 1..Len(all) |-> i],
                         LAMBDA i : \A j \in 1..(i - 1) : domain[j] # domain[i])
      senderEmails(i) ==
        SelectSeq(all, LAMBDA e : SenderDomain(MsgFrom(e.messageId)) = domain[i])
      allUnread(i) ==
        \A k \in 1..Len(senderEmails(i)) : ~senderEmails(i)[k].isRead
      newestEmail(i) == SortNewestFirst(senderEmails(i))[1]
      inactive == SelectSeq(first,
                    LAMBDA i : /\ allUnread(i)
                               /\ StrLess(MsgDate(newestEmail(i).messageId),
                                          ninetyDaysAgo))
  IN [k \in 1..Len(inactive) |-> newestEmail(inactive[k])]

findInactiveSubscriptionsCall ==
  /\ Free
  /\ ret' = [op |-> "findInactiveSubscriptions",
             value |-> findInactiveSubscriptions(emails, now)]
  /\ UNCHANGED <<now, rules, nextRuleId, emails, nextEmailId, provider, pass,
                 running, hist, sync, cleanup>>

(***************************************************************************)
(* CleanupService.getSuggestions.  A suggestion is kept as its id-free     *)
(* part: type, priority and emailIds.                                      *)
(***************************************************************************)
\* getEmails({ category, isRead: false })
getEmailsUnread(tbl, category) ==
  ByDateDesc({r \in tbl : r.category = category /\ ~r.isRead})

RECURSIVE SumSeq(_)
SumSeq(q) == IF q = <<>> THEN 0 ELSE Head(q) + SumSeq(Tail(q))

\* 5 * 1024 * 1024
LargeMinSize == 5242880

findLargeAttachments(tbl, minSize) ==
  SelectSeq(getEmails(tbl, ScanLimit),
            LAMBDA e : SumSeq(MsgAttachmentSizes(e.messageId)) >= minSize)

\* the days after which a receipt counts as old
OldDays == 365

\* marketingEmails.length > 50, as it would be with >=
TooManyMarketingInclusive(n) == n >= 50

\* marketingEmails.length > 50
TooManyMarketing(n) == n > 50

\* unreadNewsletters.length > 20
TooManyUnread(n) == n > 20

IdsOf(list) == [i \in 1..Len(list) |-> list[i].id]

\* the candidates as they would be without slice(1)
RECURSIVE RemovalCandidatesEveryMember(_)
RemovalCandidatesEveryMember(groups) ==
  IF groups = <<>> THEN <<>>
  ELSE IdsOf(Head(groups).emails)
         \o RemovalCandidatesEveryMember(Tail(groups))

\* duplicates.flatMap(g => g.emails.slice(1).map(e => e.id))
RECURSIVE RemovalCandidates(_)
RemovalCandidates(groups) ==
  IF groups = <<>> THEN <<>>
  ELSE IdsOf(Tail(Head(groups).emails)) \o RemovalCandidates(Tail(groups))

\* priorityOrder
PriorityOrder(priority) ==
  CASE priority = "high" -> 0
    [] priority = "medium" -> 1
    [] priority = "low" -> 2

\* InsertByPriority as it would be if the sort put a suggestion before the
\* ones of its own priority
RECURSIVE InsertByPriorityUnstable(_, _)
InsertByPriorityUnstable(sorted, e) ==
  IF sorted = <<>> THEN <<e>>
  ELSE IF PriorityOrder(Head(sorted).priority) < PriorityOrder(e.priority)
  THEN <<Head(sorted)>> \o InsertByPriorityUnstable(Tail(sorted), e)
  ELSE <<e>> \o sorted

\* the place of e in a list sorted by priority: behind every suggestion of
\* the same or a higher priority, as Array.prototype.sort is stable
RECURSIVE InsertByPriority(_, _)
InsertByPriority(sorted, e) ==
  IF sorted = <<>> THEN <<e>>
  ELSE IF PriorityOrder(Head(sorted).priority) <= PriorityOrder(e.priority)
  THEN <<Head(sorted)>> \o InsertByPriority(Tail(sorted), e)
  ELSE <<e>> \o sorted

\* suggestions.sort((a, b) => priorityOrder[a.priority] - priorityOrder[b.priority])
RECURSIVE SortByPriorityBy(_, _)
SortByPriorityBy(list, n) ==
  IF n = 0 THEN <<>>
  ELSE InsertByPriority(SortByPriorityBy(list, n - 1), list[n])

Suggestion(type, priority, emailIds) ==
  [type |-> type, priority |-> priority, emailIds |-> emailIds]

\* the suggestions in the order they are pushed
GeneratedSuggestions(tbl, day) ==
  LET duplicates == findDuplicates(tbl)
      inactiveSubscriptions == findInactiveSubscriptions(tbl, day)
      marketingEmails == getEmailsByCategory(tbl, marketing)
      largeAttachments == findLargeAttachments(tbl, LargeMinSize)
      oneYearAgo == DayStr(day - OldDays)
      oldTransactional ==
        SelectSeq(getEmailsByCategory(tbl, shopping),
                  LAMBDA e : StrLess(MsgDate(e.messageId), oneYearAgo))
      unreadNewsletters == getEmailsUnread(tbl, marketing)
  IN (IF Len(duplicates) > 0
      THEN <<Suggestion("duplicate", "medium", RemovalCandidates(duplicates))>>
      ELSE <<>>)
     \o (IF Len(inactiveSubscriptions) > 0
         THEN <<Suggestion("inactive_subscription", "high",
                           IdsOf(inactiveSubscriptions))>>
         ELSE <<>>)
     \o (IF TooManyMarketing(Len(marketingEmails))
         THEN <<Suggestion("spam", "medium", IdsOf(marketingEmails))>>
         ELSE <<>>)
     \o (IF Len(largeAttachments) > 0
         THEN <<Suggestion("large_attachment", "low", IdsOf(largeAttachments))>>
         ELSE <<>>)
     \o (IF Len(oldTransactional) > 0
         THEN <<Suggestion("old_transactional", "low", IdsOf(oldTransactional))>>
         ELSE <<>>)
     \o (IF TooManyUnread(Len(unreadNewsletters))
         THEN <<Suggestion("unread_newsletters", "medium",
                           IdsOf(unreadNewsletters))>>
         ELSE <<>>)

getSuggestions(tbl, day) ==
  LET suggestions == GeneratedSuggestions(tbl, day)
  IN SortByPriorityBy(suggestions, Len(suggestions))

\* the handler of cleanup:suggestions, called once on the store
getCleanupSuggestions ==
  /\ Free
  /\ ret.op = "none"
  /\ ret' = [op |-> "getSuggestions", value |-> getSuggestions(emails, now)]
  /\ UNCHANGED <<now, rules, nextRuleId, emails, nextEmailId, provider, pass,
                 running, hist, sync, cleanup>>

\* TestResult as it would be without slice(0, 10)
TestResultUnsliced(rule, tbl) ==
  LET allEmails == getEmails(tbl, TestLimit)
      matchingEmails ==
        SelectSeq(allEmails,
                  LAMBDA e : matchesConditions(EmailObject(e), rule.conditions))
  IN [matchingEmails |-> matchingEmails, totalMatches |-> Len(matchingEmails)]

\* what testRule returns for a rule
TestResult(rule, tbl) ==
  LET allEmails == getEmails(tbl, TestLimit)
      matchingEmails ==
        SelectSeq(allEmails,
                  LAMBDA e : matchesConditions(EmailObject(e), rule.conditions))
  IN [matchingEmails |->
        SubSeq(matchingEmails, 1, Min(SampleLimit, Len(matchingEmails))),
      totalMatches |-> Len(matchingEmails)]

testRule(ruleId) ==
  /\ Free
  /\ IF getRule(rules, ruleId) = {}
     THEN ret' = [op |-> "testRule", id |-> ruleId, error |-> "Rule not found"]
     ELSE LET rule == CHOOSE r \in getRule(rules, ruleId) : TRUE
          IN ret' = [op |-> "testRule", id |-> ruleId, error |-> "none",
                     value |-> TestResult(rule, emails)]
  /\ UNCHANGED <<now, rules, nextRuleId, emails, nextEmailId, provider, pass,
                 running, hist, sync, cleanup>>

(***************************************************************************)
(* EmailClassifier.classify.  Which patterns and keywords a text matches   *)
(* is an input: `f` gives, per category, the number of content patterns,   *)
(* of sender patterns and of keywords that match.  Scores are in           *)
(* twentieths, weights in tenths, so the arithmetic is exact.              *)
(***************************************************************************)
CategoryPatterns ==
  << [id |-> financial, weight |-> 12], [id |-> hr,        weight |-> 11],
     [id |-> marketing, weight |-> 9],  [id |-> important, weight |-> 15],
     [id |-> social,    weight |-> 8],  [id |-> shopping,  weight |-> 10],
     [id |-> travel,    weight |-> 11], [id |-> bills,     weight |-> 11] >>

NoMatch == [patterns |-> 0, senderPatterns |-> 0, keywords |-> 0]

\* the matches of the provider's messages: message 1 is a bank statement
\* (one content pattern, the sender pattern and one keyword of financial, one
\* content pattern of bills), message 2 matches nothing
MsgMatches(m) ==
  [c \in 1..Len(CategoryPatterns) |->
     IF m = 1 /\ c = 1
     THEN [patterns |-> 1, senderPatterns |-> 1, keywords |-> 1]
     ELSE IF m = 1 /\ c = 8
     THEN [patterns |-> 1, senderPatterns |-> 0, keywords |-> 0]
     ELSE NoMatch]


\* the score as it would be if the sender patterns were not counted
ScoreWithoutSender(f, hasUnsubscribe, c) ==
  LET w == CategoryPatterns[c].weight
  IN 4 * w * f[c].patterns + w * f[c].keywords
     + (IF hasUnsubscribe /\ CategoryPatterns[c].id = marketing THEN 20 ELSE 0)

\* the score of category c after the loop over the categories and the
\* unsubscribe bonus
Score(f, hasUnsubscribe, c) ==
  LET w == CategoryPatterns[c].weight
  IN 4 * w * f[c].patterns + 6 * w * f[c].senderPatterns + w * f[c].keywords
     + (IF hasUnsubscribe /\ CategoryPatterns[c].id = marketing THEN 20 ELSE 0)

\* the loop over the scores as it would be with `score >= bestScore`
RECURSIVE BestLoopLastWins(_, _, _, _, _)
BestLoopLastWins(f, hasUnsubscribe, c, bestCategory, bestScore) ==
  IF c > Len(CategoryPatterns)
  THEN [category |-> bestCategory, score |-> bestScore]
  ELSE LET score == Score(f, hasUnsubscribe, c)
       IN IF score >= bestScore
          THEN BestLoopLastWins(f, hasUnsubscribe, c + 1,
                                CategoryPatterns[c].id, score)
          ELSE BestLoopLastWins(f, hasUnsubscribe, c + 1, bestCategory,
                                bestScore)

\* the loop `for (const [category, score] of scores)` from category c on,
\* the scores being in the order of categoryPatterns
RECURSIVE BestLoop(_, _, _, _, _)
BestLoop(f, hasUnsubscribe, c, bestCategory, bestScore) ==
  IF c > Len(CategoryPatterns)
  THEN [category |-> bestCategory, score |-> bestScore]
  ELSE LET score == Score(f, hasUnsubscribe, c)
       IN IF score > bestScore
          THEN BestLoop(f, hasUnsubscribe, c + 1, CategoryPatterns[c].id, score)
          ELSE BestLoop(f, hasUnsubscribe, c + 1, bestCategory, bestScore)

classifyCategory(f, hasUnsubscribe) ==
  BestLoop(f, hasUnsubscribe, 1, uncategorized, 0).category

\* Array.prototype.join(' ')
RECURSIVE Join(_)
Join(parts) ==
  IF parts = <<>> THEN <<>>
  ELSE IF Len(parts) = 1 THEN parts[1]
  ELSE parts[1] \o <<" ">> \o Join(Tail(parts))

\* every pattern and keyword of the classifier holds a character other
\* than a space, so none is found in a text of spaces
Blank(text) == \A i \in 1..Len(text) : text[i] = " "

\* extractedKeywords.slice(0, 10)
KeywordCap == 10

RECURSIVE SumKeywords(_, _)
SumKeywords(f, c) == IF c = 0 THEN 0 ELSE f[c].keywords + SumKeywords(f, c - 1)

\* calculateImportance as it would be without the final clamp
calculateImportanceUnclamped(email, urgent, category, score) ==
  LET fullText == toLowerCase(Join(<<OrEmpty(email.subject),
                                     OrEmpty(email.snippet)>>))
      found == IF Blank(fullText) THEN 0 ELSE urgent
      adjust == CASE category = important -> 6
                  [] category = financial -> 3
                  [] category = bills -> 2
                  [] category = travel -> 2
                  [] category = marketing -> -4
                  [] category = social -> -2
                  [] OTHER -> 0
  IN 10 + 4 * found + adjust + (IF score > 100 THEN 2 ELSE 0)

\* calculateImportance, in twentieths; urgent is the number of urgentPatterns
\* found in a text that is not blank, score the best score in twentieths
calculateImportance(email, urgent, category, score) ==
  LET fullText == toLowerCase(Join(<<OrEmpty(email.subject),
                                     OrEmpty(email.snippet)>>))
      found == IF Blank(fullText) THEN 0 ELSE urgent
      adjust == CASE category = important -> 6
                  [] category = financial -> 3
                  [] category = bills -> 2
                  [] category = travel -> 2
                  [] category = marketing -> -4
                  [] category = social -> -2
                  [] OTHER -> 0
      importance == 10 + 4 * found + adjust + (IF score > 100 THEN 2 ELSE 0)
  IN IF importance < 0 THEN 0 ELSE IF importance > 20 THEN 20 ELSE importance

\* classify: f and urgent are what the patterns would find in texts that
\* are not blank; confidence is in two-hundredths, importance in twentieths,
\* keywords is the length of the keyword list (the keywords found are
\* distinct)
classify(email, f, urgent) ==
  LET fullText == toLowerCase(Join(<<OrEmpty(email.subject),
                                     OrEmpty(email.snippet),
                                     OrEmpty(email.body)>>))
      senderText == toLowerCase(Join(<<OrEmpty(email.from),
                                       OrEmpty(email.fromName)>>))
      g == [c \in 1..Len(CategoryPatterns) |->
              [patterns |-> IF Blank(fullText) THEN 0 ELSE f[c].patterns,
               senderPatterns |->
                 IF Blank(senderText) THEN 0 ELSE f[c].senderPatterns,
               keywords |-> IF Blank(fullText) THEN 0 ELSE f[c].keywords]]
      best == BestLoop(g, email.hasUnsubscribe, 1, uncategorized, 0)
  IN [category |-> best.category,
      confidence |-> Min(200, best.score),
      importance |-> calculateImportance(email, urgent, best.category,
                                         best.score),
      keywords |-> Min(KeywordCap, SumKeywords(g, Len(CategoryPatterns))),
      scores |-> [c \in 1..Len(CategoryPatterns) |->
                    Score(g, email.hasUnsubscribe, c)]]

\* the call of classify on the input drawn in the initial state
classifyEmail ==
  /\ Free
  /\ ret.op = "classifyInput"
  /\ ret' = [op |-> "classify", email |-> ret.email, f |-> ret.f,
              urgent |-> ret.urgent]
             @@ classify(ret.email, ret.f, ret.urgent)
  /\ UNCHANGED <<now, rules, nextRuleId, emails, nextEmailId, provider, pass,
                 running, hist, sync, cleanup>>

(***************************************************************************)
(* main.ts: the accounts:sync handler for the account, and classifyNewEmails.*)
(*   "syncing"      providerManager.syncEmails fetches the messages        *)
(*   "classifying"  classifyNewEmails labels the unclassified rows         *)
(***************************************************************************)
\* the messages the provider lists, as a sequence
RECURSIVE SeqOf(_)
SeqOf(S) ==
  IF S = {} THEN <<>>
  ELSE LET x == CHOOSE y \in S : \A z \in S : y <= z
       IN <<x>> \o SeqOf(S \ {x})

\* getUnclassifiedEmails
getUnclassifiedEmails(tbl) ==
  ByDateDesc({r \in tbl : r.category = uncategorized})

\* the accounts:sync handler starts while ids up to maxIds are left to hand
\* out; before is history: the category each stored message has at this point
SyncStartWithin(maxIds) ==
  /\ Free
  /\ sync.pc = "idle"
  /\ nextEmailId + Cardinality(Messages) - 1 <= maxIds
  /\ provider' = TRUE
  /\ sync' = [pc |-> "syncing", status |-> "syncing", todo |-> SeqOf(Messages),
              before |-> {<<r.messageId, r.category>> : r \in emails}]
  /\ ret' = [op |-> "step"]
  /\ UNCHANGED <<now, rules, nextRuleId, emails, nextEmailId, pass, running,
                 hist, cleanup>>

SyncStart == SyncStartWithin(MaxEmailIds)

\* fetchAndSaveEmail of the next message; a failed fetch is caught and
\* logged.  After the last one the status is 'classifying' and
\* classifyNewEmails reads the unclassified rows.
SyncFetch(ok) ==
  /\ Free
  /\ sync.pc = "syncing"
  /\ ret' = [op |-> "step"]
  /\ IF sync.todo = <<>>
     THEN /\ sync' = [pc |-> "classifying", status |-> "classifying",
                      todo |-> getUnclassifiedEmails(emails),
                      before |-> sync.before]
          /\ UNCHANGED <<emails, nextEmailId>>
     ELSE /\ sync' = [sync EXCEPT !.todo = Tail(@)]
          /\ IF ok
             THEN /\ emails' = saveEmail(emails,
                       [id |-> nextEmailId, messageId |-> Head(sync.todo),
                        category |-> uncategorized, isRead |-> FALSE])
                  /\ nextEmailId' = nextEmailId + 1
             ELSE UNCHANGED <<emails, nextEmailId>>
  /\ UNCHANGED <<now, rules, nextRuleId, provider, pass, running, hist,
                 cleanup>>

\* the body of the loop of classifyNewEmails for the next row: classify,
\* updateEmailCategory, updateEmailMetadata.  After the last row the handler
\* sends status 'complete' and returns.
SyncClassify ==
  /\ Free
  /\ sync.pc = "classifying"
  /\ IF sync.todo = <<>>
     THEN /\ sync' = [pc |-> "idle", status |-> "complete", todo |-> <<>>]
          /\ ret' = [op |-> "accounts:sync", success |-> TRUE]
          /\ UNCHANGED <<emails, labelled>>
     ELSE LET email == Head(sync.todo)
              category == classifyCategory(MsgMatches(email.messageId),
                                           MsgHasUnsubscribe(email.messageId))
          IN /\ emails' = updateEmailCategory(emails, email.id, category)
             /\ labelled' = labelled \cup {email.id}
             /\ sync' = [sync EXCEPT !.todo = Tail(@)]
             /\ ret' = [op |-> "step"]
  /\ UNCHANGED <<now, rules, nextRuleId, nextEmailId, provider, pass, running,
                 deleted, provLog, hits, nApply, overlap, evaluated, cleanup>>

\* the emails:updateCategory handler
updateCategory(emailId, category) ==
  /\ Free
  /\ emails' = updateEmailCategory(emails, emailId, category)
  /\ ret' = [op |-> "emails:updateCategory", success |-> TRUE]
  /\ UNCHANGED <<now, rules, nextRuleId, nextEmailId, provider, pass, running,
                 hist, sync, cleanup>>

(***************************************************************************)
(* CleanupService.executeAction for the types archive, delete, mark_read.  *)
(*   "loop"      at the head of `for (const emailId of emailIds)`          *)
(*   "provider"  awaiting providerManager.archiveEmail or deleteEmail      *)
(***************************************************************************)
executeActionStart(type, emailIds) ==
  /\ Free
  /\ cleanup.pc = "idle"
  /\ IF type = "mark_read"
     THEN /\ emails' = markEmailsRead(emails,
                          {emailIds[i] : i \in 1..Len(emailIds)}, TRUE)
          /\ ret' = [op |-> "executeAction", threw |-> FALSE,
                     success |-> TRUE, count |-> Len(emailIds)]
          /\ UNCHANGED <<cleanup, running>>
     ELSE /\ cleanup' = [IdleCleanup EXCEPT !.pc = "loop", !.type = type,
                                            !.emailIds = emailIds]
          /\ running' = "cleanup"
          /\ ret' = [op |-> "step"]
          /\ UNCHANGED emails
  /\ UNCHANGED <<now, rules, nextRuleId, nextEmailId, provider, pass, hist,
                 sync>>

executeActionLoop ==
  /\ running = "cleanup"
  /\ cleanup.pc = "loop"
  /\ IF cleanup.at > Len(cleanup.emailIds)
     THEN /\ ret' = [op |-> "executeAction", threw |-> FALSE,
                     success |-> TRUE, count |-> Len(cleanup.emailIds)]
          /\ cleanup' = IdleCleanup
          /\ running' = "none"
          /\ UNCHANGED provLog
     ELSE LET emailId == cleanup.emailIds[cleanup.at]
          IN /\ ret' = [op |-> "step"]
             /\ IF getEmail(emails, emailId) = {}
                THEN /\ cleanup' = [cleanup EXCEPT !.at = @ + 1]
                     /\ UNCHANGED <<running, provLog>>
                ELSE /\ cleanup' = [cleanup EXCEPT !.pc = "provider"]
                     /\ running' = "none"
                     /\ provLog' = IF provider
                                   THEN provLog \cup {<<cleanup.type, emailId>>}
                                   ELSE provLog
  /\ UNCHANGED <<now, rules, nextRuleId, emails, nextEmailId, provider, pass,
                 deleted, hits, nApply, overlap, labelled, evaluated, sync>>

\* the awaited provider call settles; executeAction has no try around it, so
\* a rejection leaves the loop and rejects the call
executeActionProviderReturn(ok) ==
  /\ Free
  /\ cleanup.pc = "provider"
  /\ LET emailId == cleanup.emailIds[cleanup.at]
         resolved == ok \/ ~provider
     IN IF resolved
        THEN /\ emails' = IF cleanup.type = "delete"
                          THEN deleteEmails(emails, {emailId})
                          ELSE emails
             /\ cleanup' = [cleanup EXCEPT !.pc = "loop", !.at = @ + 1]
             /\ running' = "cleanup"
             /\ ret' = [op |-> "step"]
        ELSE /\ ret' = [op |-> "executeAction", threw |-> TRUE,
                        success |-> FALSE, count |-> cleanup.at - 1]
             /\ cleanup' = IdleCleanup
             /\ UNCHANGED <<emails, running>>
  /\ UNCHANGED <<now, rules, nextRuleId, nextEmailId, provider, pass, hist,
                 sync>>

(***************************************************************************)
(* The calls the surrounding application makes, and their arguments.       *)
(***************************************************************************)
fromContainsB == [field |-> "from", operator |-> "contains", value |-> <<"@", "B">>]

fromContainsAt == [field |-> "from", operator |-> "contains", value |-> <<"@">>]

regexMalformed == [field |-> "from", operator |-> "regex", value |-> <<"(">>]

regexValid == [field |-> "from", operator |-> "regex", value |-> <<"B">>]

\* conditions as the rules:create handler passes them on unchecked: a field
\* and an operator that matchesCondition has no case for
unknownField == [field |-> "cc", operator |-> "contains", value |-> <<"@">>]

unknownOperator == [field |-> "from", operator |-> "matches", value |-> <<"@">>]

toContainsB == [field |-> "to", operator |-> "contains", value |-> <<"@", "B">>]

bodyEqualsEmpty == [field |-> "body", operator |-> "equals", value |-> <<>>]

categoryIsMarketing ==
  [field |-> "category", operator |-> "equals", value |-> marketing]

categoryIsFinancial ==
  [field |-> "category", operator |-> "equals", value |-> financial]

archiveThenMarkRead == <<[type |-> "archive"], [type |-> "markRead"]>>

categorizeFinancial == <<[type |-> "categorize", value |-> financial]>>

categorizeMarketing == <<[type |-> "categorize", value |-> marketing]>>

categorizeBogus == <<[type |-> "categorize", value |-> bogus]>>

RuleIds == 1..MaxRules

EmailIds == 1..MaxEmailIds

\* the rules:create, rules:update and rules:delete handlers, with the
\* conditions, actions, priorities and updates the user may enter
RuleCalls(conditionInputs, actionInputs, priorityInputs, updateInputs) ==
  \/ \E c \in conditionInputs, a \in actionInputs, n \in priorityInputs :
       createRule(c, a, n)
  \/ \E id \in RuleIds, u \in updateInputs : updateRule(id, u)
  \/ \E id \in RuleIds : deleteRule(id)

\* applyRulesToEmail called at most maxApply times, for a stored email
PassSteps(ps, maxApply, storeOks, providerOks) ==
  \/ \E p \in ps, row \in emails : nApply < maxApply /\ ApplyStart(p, row)
  \/ \E p \in ps : ApplyLoop(p)
  \/ \E p \in ps, ok \in storeOks : ApplyExec(p, ok)
  \/ \E p \in ps, ok \in providerOks : ApplyProviderReturn(p, ok)
  \/ \E p \in ps : ApplyResume(p)

SyncSteps(fetchOks) ==
  \/ SyncStart
  \/ \E ok \in fetchOks : SyncFetch(ok)
  \/ SyncClassify

\* the state after the first accounts:sync of a new database completed: both
\* messages stored and labelled (SyncedReachable states that SpecSync gets
\* there)
Synced ==
  /\ emails = {[id |-> 1, messageId |-> 1, category |-> financial,
                isRead |-> FALSE],
               [id |-> 2, messageId |-> 2, category |-> uncategorized,
                isRead |-> FALSE]}
  /\ nextEmailId = 3
  /\ provider = TRUE
  /\ sync = [pc |-> "idle", status |-> "complete", todo |-> <<>>]
  /\ labelled = {1, 2}

InitSynced ==
  /\ Synced
  /\ now = 0
  /\ rules = <<>>
  /\ nextRuleId = 1
  /\ pass = [p \in Passes |-> IdlePass]
  /\ running = "none"
  /\ ret = [op |-> "none"]
  /\ deleted = {}
  /\ provLog = {}
  /\ hits = [id \in 1..MaxRules |-> 0]
  /\ nApply = 0
  /\ overlap = FALSE
  /\ cleanup = IdleCleanup
  /\ evaluated = {}

(***************************************************************************)
(* Spec: the rule store under rule edits and two concurrent                *)
(* applyRulesToEmail passes, after a sync.                                 *)
(***************************************************************************)
\* the applyRulesToEmail calls of a behaviour
MaxApply == 2

Next ==
  \/ Tick
  \/ RuleCalls({<<fromContainsAt>>}, {<<[type |-> "archive"]>>}, {0, 1},
               {[enabled |-> FALSE], [priority |-> 1]})
  \/ PassSteps(Passes, MaxApply, {TRUE}, {TRUE})

Spec == InitSynced /\ [][Next]_vars

(***************************************************************************)
(* SpecSync: a new database; the account is synced while the user updates  *)
(* categories and edits rules, and one applyRulesToEmail pass may run.     *)
(***************************************************************************)
NextSync ==
  \/ SyncSteps(BOOLEAN)
  \/ \E id \in EmailIds, c \in {marketing, bogus} : updateCategory(id, c)
  \/ RuleCalls({<<fromContainsB>>},
               {<<[type |-> "archive"], [type |-> "categorize", value |-> bogus]>>},
               {0}, {[enabled |-> FALSE]})
  \/ PassSteps({"p1"}, 1, {TRUE}, {TRUE})

SpecSync == Init /\ [][NextSync]_vars

\* SpecSync reaches the state the other specifications start in
SyncedReachable == ~(Synced /\ rules = <<>> /\ nApply = 0 /\ provLog = {})

(***************************************************************************)
(* SpecCrud: createRule, updateRule and deleteRule on a new database.      *)
(***************************************************************************)
(* CleanupService.bulkUnsubscribe.                                         *)
(*   "unsubLoop"  at the head of `for (const emailId of emailIds)`         *)
(*   "open"       awaiting shell.openExternal                              *)
(*   "delay"      awaiting the one-second timer                            *)
(***************************************************************************)
bulkUnsubscribeStart(emailIds) ==
  /\ Free
  /\ cleanup.pc = "idle"
  /\ cleanup' = [IdleCleanup EXCEPT !.pc = "unsubLoop", !.type = "unsubscribe",
                                    !.emailIds = emailIds]
  /\ running' = "cleanup"
  /\ ret' = [op |-> "step"]
  /\ UNCHANGED <<now, rules, nextRuleId, emails, nextEmailId, provider, pass,
                 hist, sync>>

\* bulkUnsubscribeLoop as it would be if an id without a link were passed
\* over without counting it
bulkUnsubscribeLoopUncounted ==
  /\ running = "cleanup"
  /\ cleanup.pc = "unsubLoop"
  /\ IF cleanup.at > Len(cleanup.emailIds)
     THEN /\ ret' = [op |-> "bulkUnsubscribe", threw |-> FALSE,
                     emailIds |-> cleanup.emailIds,
                     processed |-> cleanup.processed,
                     skipped |-> cleanup.skipped, links |-> cleanup.links]
          /\ cleanup' = IdleCleanup
          /\ running' = "none"
     ELSE LET email == getEmail(emails, cleanup.emailIds[cleanup.at])
              link == UNION {MsgUnsubscribeLink(r.messageId) : r \in email}
          IN /\ ret' = [op |-> "step"]
             /\ IF link \notin {{}, {<<>>}}
                THEN /\ cleanup' = [cleanup EXCEPT
                                      !.pc = "open",
                                      !.links = @ \o <<CHOOSE l \in link : TRUE>>]
                     /\ running' = "none"
                ELSE /\ cleanup' = [cleanup EXCEPT !.at = @ + 1]
                     /\ UNCHANGED running
  /\ UNCHANGED <<now, rules, nextRuleId, emails, nextEmailId, provider, pass,
                 hist, sync>>

\* one turn of the loop up to its first await, or the return after it
bulkUnsubscribeLoop ==
  /\ running = "cleanup"
  /\ cleanup.pc = "unsubLoop"
  /\ IF cleanup.at > Len(cleanup.emailIds)
     THEN /\ ret' = [op |-> "bulkUnsubscribe", threw |-> FALSE,
                     emailIds |-> cleanup.emailIds,
                     processed |-> cleanup.processed,
                     skipped |-> cleanup.skipped, links |-> cleanup.links]
          /\ cleanup' = IdleCleanup
          /\ running' = "none"
     ELSE LET email == getEmail(emails, cleanup.emailIds[cleanup.at])
              link == UNION {MsgUnsubscribeLink(r.messageId) : r \in email}
          IN /\ ret' = [op |-> "step"]
             /\ IF link \notin {{}, {<<>>}}
                THEN /\ cleanup' = [cleanup EXCEPT
                                      !.pc = "open",
                                      !.links = @ \o <<CHOOSE l \in link : TRUE>>]
                     /\ running' = "none"
                ELSE /\ cleanup' = [cleanup EXCEPT !.skipped = @ + 1,
                                                   !.at = @ + 1]
                     /\ UNCHANGED running
  /\ UNCHANGED <<now, rules, nextRuleId, emails, nextEmailId, provider, pass,
                 hist, sync>>

\* shell.openExternal settles; there is no try around it, so a rejection
\* rejects the call
bulkUnsubscribeOpened(ok) ==
  /\ Free
  /\ cleanup.pc = "open"
  /\ IF ok
     THEN /\ cleanup' = [cleanup EXCEPT !.pc = "delay", !.processed = @ + 1]
          /\ ret' = [op |-> "step"]
     ELSE /\ cleanup' = IdleCleanup
          /\ ret' = [op |-> "bulkUnsubscribe", threw |-> TRUE,
                     emailIds |-> cleanup.emailIds,
                     processed |-> cleanup.processed,
                     skipped |-> cleanup.skipped, links |-> cleanup.links]
  /\ UNCHANGED <<now, rules, nextRuleId, emails, nextEmailId, provider, pass,
                 running, hist, sync>>

\* the timer fires and the loop goes on
bulkUnsubscribeDelay ==
  /\ Free
  /\ cleanup.pc = "delay"
  /\ cleanup' = [cleanup EXCEPT !.pc = "unsubLoop", !.at = @ + 1]
  /\ running' = "cleanup"
  /\ ret' = [op |-> "step"]
  /\ UNCHANGED <<now, rules, nextRuleId, emails, nextEmailId, provider, pass,
                 hist, sync>>

(***************************************************************************)
NextCrud ==
  \/ Tick
  \/ RuleCalls({<<fromContainsB>>}, {<<[type |-> "archive"]>>}, {0, 1},
               {[enabled |-> FALSE], [enabled |-> TRUE], [priority |-> 1]})

SpecCrud == Init /\ [][NextCrud]_vars

(***************************************************************************)
(* SpecExec: applyRulesToEmail passes, one at a time, whose provider calls *)
(* and store writes may fail, while rules are created.                     *)
(***************************************************************************)
NextExec ==
  \/ \E a \in {archiveThenMarkRead, categorizeFinancial} :
       createRule(<<fromContainsB>>, a, 0)
  \/ PassSteps({"p1"}, MaxApply, BOOLEAN, BOOLEAN)

SpecExec == InitSynced /\ [][NextExec]_vars

(***************************************************************************)
(* SpecCleanup: executeAction over lists of stored and unknown email ids,  *)
(* with provider calls that may fail.                                      *)
(***************************************************************************)
\* the lists of at most two ids out of the stored ids and one unknown id
IdLists ==
  LET ids == 1..(MaxEmailIds + 1)
  IN {<<>>} \cup {<<a>> : a \in ids} \cup {<<a, b>> : a \in ids, b \in ids}

NextCleanup ==
  \/ \E t \in {"archive", "delete", "mark_read"}, ids \in IdLists :
       executeActionStart(t, ids)
  \/ executeActionLoop
  \/ \E ok \in BOOLEAN : executeActionProviderReturn(ok)

SpecCleanup == InitSynced /\ [][NextCleanup]_vars

(***************************************************************************)
(* SpecTest: testRule on a store that holds the rows of a mailbox of up to *)
(* MaxMailbox labelled messages, while rules are created.                   *)
(***************************************************************************)
MaxMailbox == 12

\* the category classifyNewEmails gives the message
MsgCategory(m) == classifyCategory(MsgMatches(m), MsgHasUnsubscribe(m))

InitMailbox ==
  /\ \E n \in 0..MaxMailbox :
       /\ emails = {[id |-> m, messageId |-> m, category |-> MsgCategory(m),
                     isRead |-> FALSE] : m \in 1..n}
       /\ nextEmailId = n + 1
       /\ labelled = 1..n
  /\ provider = TRUE
  /\ sync = [pc |-> "idle", status |-> "complete", todo |-> <<>>]
  /\ now = 0
  /\ rules = <<>>
  /\ nextRuleId = 1
  /\ pass = [p \in Passes |-> IdlePass]
  /\ running = "none"
  /\ ret = [op |-> "none"]
  /\ deleted = {}
  /\ provLog = {}
  /\ hits = [id \in 1..MaxRules |-> 0]
  /\ nApply = 0
  /\ overlap = FALSE
  /\ cleanup = IdleCleanup
  /\ evaluated = {}

NextTest ==
  \/ \E c \in {<<>>, <<fromContainsB>>, <<fromContainsB, categoryIsFinancial>>} :
       createRule(c, <<[type |-> "delete"]>>, 0)
  \/ \E id \in RuleIds : testRule(id)

SpecTest == InitMailbox /\ [][NextTest]_vars

(***************************************************************************)
(* SpecUnsubscribe: bulkUnsubscribe over lists of ids that may repeat and  *)
(* may be unknown, on the rows of a mailbox; opening a link may fail.      *)
(***************************************************************************)
\* the lists of at most three ids out of a plain message, the newsletter
\* and an id no row has
UnsubscribeLists ==
  LET ids == {2, 3, MaxMailbox + 1}
  IN UNION {[1..n -> ids] : n \in 0..3}

NextUnsubscribe ==
  \/ \E ids \in UnsubscribeLists : bulkUnsubscribeStart(ids)
  \/ bulkUnsubscribeLoop
  \/ \E ok \in BOOLEAN : bulkUnsubscribeOpened(ok)
  \/ bulkUnsubscribeDelay

SpecUnsubscribe == InitMailbox /\ [][NextUnsubscribe]_vars

(***************************************************************************)
(* The cleanup scans read a store that holds a chosen set of rows, on a    *)
(* chosen day; in these specifications the clock counts days.              *)
(***************************************************************************)
Row(m, category, isRead) ==
  [id |-> m, messageId |-> m, category |-> category, isRead |-> isRead]

\* new Date(): the day of the scan
Today == 600

InitStore(tbl, day) ==
  /\ emails = tbl
  /\ nextEmailId = MaxEmailIds + 1
  /\ labelled = {r.id : r \in tbl}
  /\ now = day
  /\ provider = TRUE
  /\ sync = [pc |-> "idle", status |-> "complete", todo |-> <<>>]
  /\ rules = <<>>
  /\ nextRuleId = 1
  /\ pass = [p \in Passes |-> IdlePass]
  /\ running = "none"
  /\ ret = [op |-> "none"]
  /\ deleted = {}
  /\ provLog = {}
  /\ hits = [id \in 1..MaxRules |-> 0]
  /\ nApply = 0
  /\ overlap = FALSE
  /\ cleanup = IdleCleanup
  /\ evaluated = {}

(***************************************************************************)
(* SpecDuplicates: findDuplicates, called again and again, on any set of   *)
(* the near-duplicates and look-alikes.                                    *)
(***************************************************************************)
InitDuplicates ==
  \E ms \in SUBSET DuplicateMessages :
     InitStore({Row(m, uncategorized, FALSE) : m \in ms}, Today)

NextDuplicates == findDuplicatesCall

SpecDuplicates == InitDuplicates /\ [][NextDuplicates]_vars

(***************************************************************************)
(* SpecInactive: findInactiveSubscriptions on any set of the newsletters   *)
(* of two sender domains, each read or unread, marketing or not, on the    *)
(* day the newest of them turns 90 days old and on the day after.          *)
(***************************************************************************)
\* the rows of the messages ms, those of mk marketing, those of rd read
Rows(ms, mk, rd) ==
  {Row(m, IF m \in mk THEN marketing ELSE uncategorized, m \in rd) : m \in ms}

InitInactive ==
  \E ms \in SUBSET SubscriptionMessages :
    \E mk \in SUBSET ms :
      \E rd \in SUBSET ms :
        \E day \in {Today, Today + 1} : InitStore(Rows(ms, mk, rd), day)

NextInactive == findInactiveSubscriptionsCall

SpecInactive == InitInactive /\ [][NextInactive]_vars

(***************************************************************************)
(* SpecSuggest: getSuggestions on a store with some issues of a newsletter *)
(* (marketing, the oldest of them unread) and any of: a pair of            *)
(* duplicates, an unread newsletter of another sender, a message with      *)
(* large attachments, a receipt that is 366 days old.                      *)
(***************************************************************************)
\* the numbers of issues and of unread issues: around both thresholds
IssueCounts == {0, 20, 21, 50, 51, MaxCorpus}

\* the rows that may be stored next to the issues
Extras ==
  {{Row(21, uncategorized, TRUE), Row(22, uncategorized, TRUE)},
   {Row(34, marketing, FALSE)},
   {Row(41, uncategorized, TRUE)},
   {Row(42, shopping, TRUE)}}

InitSuggest ==
  \E n \in IssueCounts :
    \E u \in {k \in IssueCounts \cup {n} : k <= n} :
      \E extras \in SUBSET Extras :
        InitStore({Row(100 + k, marketing, k > u) : k \in 1..n}
                    \cup UNION extras, Today)

NextSuggest == getCleanupSuggestions

SpecSuggest == InitSuggest /\ [][NextSuggest]_vars

(***************************************************************************)
(* SpecRegex: rules with a malformed or a well-formed regex condition are  *)
(* created, applied and tested after a sync.                               *)
(***************************************************************************)
NextRegex ==
  \/ \E c \in {<<regexMalformed>>, <<fromContainsAt, regexMalformed>>,
               <<regexValid>>} :
       createRule(c, <<[type |-> "archive"]>>, 0)
  \/ PassSteps({"p1"}, MaxApply, {TRUE}, {TRUE})
  \/ \E id \in RuleIds : testRule(id)

SpecRegex == InitSynced /\ [][NextRegex]_vars

(***************************************************************************)
(* SpecMatch: rules keyed on the sender and on the category are created    *)
(* and disabled between applyRulesToEmail passes, one pass at a time.      *)
(***************************************************************************)
MatchRuleInputs ==
  {[conditions |-> <<fromContainsAt>>, actions |-> categorizeMarketing],
   [conditions |-> <<fromContainsAt, categoryIsMarketing>>,
    actions |-> <<[type |-> "archive"]>>],
   [conditions |-> <<fromContainsAt, categoryIsFinancial>>,
    actions |-> archiveThenMarkRead]}

NextMatch ==
  \/ \E r \in MatchRuleInputs :
       (\A p \in Passes : pass[p].pc = "idle")
         /\ createRule(r.conditions, r.actions, 0)
  \/ \E id \in RuleIds :
       (\A p \in Passes : pass[p].pc = "idle")
         /\ updateRule(id, [enabled |-> FALSE])
  \/ PassSteps({"p1"}, MaxApply, {TRUE}, {TRUE})

SpecMatch == InitSynced /\ [][NextMatch]_vars

(***************************************************************************)
(* SpecDate: a date condition with operator before or after, on a message  *)
(* dated by the provider and a value written by toISOString.               *)
(***************************************************************************)
\* the call of matchesCondition on the input drawn in the initial state
matchesDateCondition ==
  /\ Free
  /\ ret.op = "dateInput"
  /\ LET email == [EmailObject([id |-> 1, messageId |-> 1,
                                category |-> uncategorized, isRead |-> FALSE])
                     EXCEPT !.date = toISOString(ret.date)]
         condition == [field |-> "date", operator |-> ret.operator,
                       value |-> toISOString(ret.value)]
     IN ret' = [op |-> "matchesCondition", date |-> ret.date,
                value |-> ret.value, operator |-> ret.operator,
                result |-> matchesCondition(email, condition)]
  /\ UNCHANGED <<now, rules, nextRuleId, emails, nextEmailId, provider, pass,
                 running, hist, sync, cleanup>>

InitDate ==
  /\ ret \in [op : {"dateInput"}, date : Instants, value : Instants,
               operator : {"before", "after"}]
  /\ now = 0
  /\ rules = <<>>
  /\ nextRuleId = 1
  /\ emails = {}
  /\ nextEmailId = 1
  /\ provider = FALSE
  /\ pass = [p \in Passes |-> IdlePass]
  /\ running = "none"
  /\ deleted = {}
  /\ provLog = {}
  /\ hits = [id \in 1..MaxRules |-> 0]
  /\ nApply = 0
  /\ overlap = FALSE
  /\ sync = IdleSync
  /\ cleanup = IdleCleanup
  /\ labelled = {}
  /\ evaluated = {}

NextDate == matchesDateCondition

SpecDate == InitDate /\ [][NextDate]_vars

(***************************************************************************)
(* SpecUnknown: rules whose conditions name a field or an operator that    *)
(* matchesCondition does not know, next to rules on fields it knows, are   *)
(* created, applied to the stored messages and tested.                     *)
(***************************************************************************)
NextUnknown ==
  \/ \E c \in {<<unknownField>>, <<fromContainsAt, unknownOperator>>,
               <<toContainsB, bodyEqualsEmpty>>} :
       createRule(c, <<[type |-> "archive"]>>, 0)
  \/ PassSteps({"p1"}, MaxApply, {TRUE}, {TRUE})
  \/ \E id \in RuleIds : testRule(id)

SpecUnknown == InitSynced /\ [][NextUnknown]_vars

(***************************************************************************)
(* RulesEngine.exportRulesForProvider.  The value returned is the list the *)
(* converter hands to JSON.stringify; a stored rule has no name here, so   *)
(* the entries are told apart by their position, the order of getRules.    *)
(***************************************************************************)
\* the criterion text of a condition, `from:${condition.value}`
Criterion(condition) ==
  CASE condition.field = "from" ->
         << <<"f", "r", "o", "m", ":">> \o condition.value >>
    [] condition.field = "to" -> << <<"t", "o", ":">> \o condition.value >>
    [] condition.field = "subject" ->
         << <<"s", "u", "b", "j", "e", "c", "t", ":">> \o condition.value >>
    [] OTHER -> <<>>

RECURSIVE Criteria(_)
Criteria(conditions) ==
  IF conditions = <<>> THEN <<>>
  ELSE Criterion(Head(conditions)) \o Criteria(Tail(conditions))

\* the filter action of a rule action
FilterAction(action) ==
  CASE action.type = "archive" -> <<"shouldArchive">>
    [] action.type = "markRead" -> <<"shouldMarkAsRead">>
    [] action.type = "delete" -> <<"shouldTrash">>
    [] action.type = "label" -> << <<"label:", action.value>> >>
    [] OTHER -> <<>>

RECURSIVE FilterActions(_)
FilterActions(actions) ==
  IF actions = <<>> THEN <<>>
  ELSE FilterAction(Head(actions)) \o FilterActions(Tail(actions))

\* convertToGmailFilters as it would be if conditions on other fields were
\* carried over as well
convertToGmailFiltersEveryField(rs) ==
  [i \in 1..Len(rs) |->
     [criteria |->
        JoinSpace([k \in 1..Len(rs[i].conditions) |->
                     IF Criterion(rs[i].conditions[k]) # <<>>
                     THEN Criterion(rs[i].conditions[k])[1]
                     ELSE <<rs[i].conditions[k].field, ":">>
                            \o rs[i].conditions[k].value]),
      actions |-> FilterActions(rs[i].actions)]]

convertToGmailFilters(rs) ==
  [i \in 1..Len(rs) |->
     [criteria |-> JoinSpace(Criteria(rs[i].conditions)),
      actions |-> FilterActions(rs[i].actions)]]

convertToOutlookRules(rs) ==
  [i \in 1..Len(rs) |->
     [sequence |-> rs[i].priority, isEnabled |-> rs[i].enabled,
      conditions |->
        [k \in 1..Len(rs[i].conditions) |->
           [type |-> rs[i].conditions[k].field,
            value |-> rs[i].conditions[k].value,
            operation |-> rs[i].conditions[k].operator]],
      actions |->
        [k \in 1..Len(rs[i].actions) |->
           [action |-> rs[i].actions[k].type,
            value |-> IF "value" \in DOMAIN rs[i].actions[k]
                      THEN {rs[i].actions[k].value} ELSE {}]]]]

exportRulesForProvider(target) ==
  /\ Free
  /\ LET rs == getRules(rules)
     IN ret' = [op |-> "exportRulesForProvider", provider |-> target,
                rules |-> rs,
                value |-> IF target = "gmail" THEN convertToGmailFilters(rs)
                          ELSE convertToOutlookRules(rs)]
  /\ UNCHANGED <<now, rules, nextRuleId, emails, nextEmailId, provider, pass,
                 running, hist, sync, cleanup>>

(***************************************************************************)
(* SpecExport: rules with conditions and actions in and out of the set the *)
(* Gmail filter format has are created, disabled and exported.             *)
(***************************************************************************)
subjectStartsWithS ==
  [field |-> "subject", operator |-> "startsWith", value |-> <<"S">>]

labelB == [type |-> "label", value |-> <<"B">>]

ExportRuleInputs ==
  {[conditions |-> <<fromContainsB, categoryIsMarketing, toContainsB>>,
    actions |-> <<[type |-> "archive"], [type |-> "categorize",
                                         value |-> marketing], labelB>>],
   [conditions |-> <<subjectStartsWithS>>,
    actions |-> <<[type |-> "markRead"], [type |-> "delete"]>>],
   [conditions |-> <<categoryIsFinancial>>,
    actions |-> <<[type |-> "star"]>>],
   [conditions |-> <<>>, actions |-> <<>>]}

NextExport ==
  \/ \E r \in ExportRuleInputs, n \in {0, 1} :
       createRule(r.conditions, r.actions, n)
  \/ \E id \in RuleIds : updateRule(id, [enabled |-> FALSE])
  \/ \E id \in RuleIds : deleteRule(id)
  \/ \E target \in {"gmail", "outlook"} : exportRulesForProvider(target)

SpecExport == InitSynced /\ [][NextExport]_vars

(***************************************************************************)
(* SpecDedupe: the cleanup suggestions are asked for on a store of         *)
(* near-duplicates, the 'Remove duplicates' suggestion is executed, with   *)
(* provider calls that may fail, and findDuplicates is called again.       *)
(***************************************************************************)
\* the emailIds of the suggestions of type duplicate among those returned
SuggestedDuplicates(suggestions) ==
  {suggestions[i].emailIds :
     i \in {k \in 1..Len(suggestions) : suggestions[k].type = "duplicate"}}

NextDedupe ==
  \/ getCleanupSuggestions
  \/ \E ids \in SuggestedDuplicates(IF ret.op = "getSuggestions"
                                     THEN ret.value ELSE <<>>) :
       executeActionStart("delete", ids)
  \/ executeActionLoop
  \/ \E ok \in BOOLEAN : executeActionProviderReturn(ok)
  \/ ret.op = "executeAction" /\ findDuplicatesCall

SpecDedupe == InitDuplicates /\ [][NextDedupe]_vars

(***************************************************************************)
(* SpecEmpty: rules with no condition and rules on the sender are created, *)
(* applied to the stored messages, with provider calls that may fail, and  *)
(* tested.                                                                 *)
(***************************************************************************)
NextEmpty ==
  \/ \E c \in {<<>>, <<fromContainsB>>}, n \in {0, 1} :
       createRule(c, archiveThenMarkRead, n)
  \/ PassSteps({"p1"}, MaxApply, {TRUE}, BOOLEAN)
  \/ \E id \in RuleIds : testRule(id)

SpecEmpty == InitSynced /\ [][NextEmpty]_vars

(***************************************************************************)
(* SpecResync: after a first sync the user sets categories and a rule with *)
(* a categorize action is applied; then the account is synced again.  The  *)
(* user and the rule engine act between the syncs, not during one.         *)
(***************************************************************************)
NextResync ==
  \/ SyncStartWithin(MaxEmailIds + Cardinality(Messages))
  \/ \E ok \in BOOLEAN : SyncFetch(ok)
  \/ SyncClassify
  \/ \E id \in EmailIds, c \in {marketing, financial} :
       sync.pc = "idle" /\ updateCategory(id, c)
  \/ sync.pc = "idle" /\ createRule(<<fromContainsB>>, categorizeMarketing, 0)
  \/ sync.pc = "idle" /\ PassSteps({"p1"}, 1, {TRUE}, {TRUE})

SpecResync == InitSynced /\ [][NextResync]_vars

(***************************************************************************)
(* SpecRuleIds: rules are created, updated, deleted and tested under ids   *)
(* that are and that are not in the rule store, while the clock advances.  *)
(***************************************************************************)
NextRuleIds ==
  \/ Tick
  \/ RuleCalls({<<fromContainsB>>}, {<<[type |-> "archive"]>>}, {0, 1},
               {[enabled |-> FALSE], [priority |-> 1]})
  \/ \E id \in RuleIds : testRule(id)

SpecRuleIds == InitSynced /\ [][NextRuleIds]_vars

(***************************************************************************)
(* SpecClassify: classify applied to a message whose fields are absent,    *)
(* empty or filled, with the matches its patterns and keywords may find.   *)
(***************************************************************************)
\* the most keywords of one category found in a text
MaxKeywordMatches == 3

\* a category has two content patterns and at most one sender pattern
Profiles ==
  [patterns : 0..2, senderPatterns : 0..1, keywords : 0..MaxKeywordMatches]

KeywordProfiles == {q \in Profiles : q.patterns = 0 /\ q.senderPatterns = 0}

\* matches in at most two categories, keywords alone in the later one
MatchInputs ==
  {[c \in 1..Len(CategoryPatterns) |->
      IF c = k[1] THEN q1 ELSE IF c = k[2] THEN q2 ELSE NoMatch] :
     k \in {x \in (1..Len(CategoryPatterns)) \X (1..Len(CategoryPatterns)) :
              x[1] < x[2]},
     q1 \in Profiles, q2 \in KeywordProfiles}

\* what the patterns find in a message of a bank whose subject holds
\* "statement": the first content pattern, the sender pattern and the keyword
\* 'statement' of financial and the keyword 'statement' of bills at least,
\* and whatever the rest of the text matches in one other category
StatementInputs ==
  {[c \in 1..Len(CategoryPatterns) |->
      IF c = 1 THEN q1
      ELSE IF c = 8
      THEN [(IF k = 8 THEN q2 ELSE NoMatch) EXCEPT
              !.keywords = IF @ = 0 THEN 1 ELSE @]
      ELSE IF c = k THEN q2 ELSE NoMatch] :
     k \in 2..Len(CategoryPatterns),
     q1 \in {q \in Profiles : /\ q.patterns >= 1
                              /\ q.senderPatterns = 1
                              /\ q.keywords >= 1},
     q2 \in Profiles}

Statement == <<"S", "t", "a", "t", "e", "m", "e", "n", "t">>

ClassifyEmails ==
  {[subject |-> t, snippet |-> t \cap {<<>>}, body |-> {}, from |-> a,
    fromName |-> {}, hasUnsubscribe |-> u] :
     t \in {{}, {<<>>}, {Statement}},
     a \in {{}, {<<>>}, {<<"a", "@", "b", "a", "n", "k">>}},
     u \in BOOLEAN}

InitClassify ==
  /\ ret \in [op : {"classifyInput"}, email : ClassifyEmails,
               f : MatchInputs \cup StatementInputs, urgent : 0..2]
  /\ now = 0
  /\ rules = <<>>
  /\ nextRuleId = 1
  /\ emails = {}
  /\ nextEmailId = 1
  /\ provider = FALSE
  /\ pass = [p \in Passes |-> IdlePass]
  /\ running = "none"
  /\ deleted = {}
  /\ provLog = {}
  /\ hits = [id \in 1..MaxRules |-> 0]
  /\ nApply = 0
  /\ overlap = FALSE
  /\ sync = IdleSync
  /\ cleanup = IdleCleanup
  /\ labelled = {}
  /\ evaluated = {}

NextClassify == classifyEmail

SpecClassify == InitClassify /\ [][NextClassify]_vars

\* the stored hit_count of a stored rule
HitCountOf(tbl, id) == (CHOOSE r \in getRule(tbl, id) : TRUE).hit_count

NoPassInFlight == \A p \in Passes : pass[p].pc = "idle"

(***************************************************************************)
(* C1.  A stored rule's hitCount never decreases, and every evaluation of  *)
(* applyRulesToEmail in which the stored, enabled rule matches the message *)
(* raises its stored hitCount by exactly 1.  (hits[id] counts the matching *)
(* evaluations of rule id.)                                                *)
(***************************************************************************)
C1_HitCountCountsMatches ==
  [][\A id \in RuleIds :
       (getRule(rules, id) # {} /\ getRule(rules', id) # {}) =>
         /\ HitCountOf(rules', id) >= HitCountOf(rules, id)
         /\ (hits'[id] = hits[id] + 1) =>
              HitCountOf(rules', id) = HitCountOf(rules, id) + 1]_vars

(***************************************************************************)
(* C2.  In every pass the enabled rules are evaluated in descending        *)
(* priority order, and rules of equal priority in the order of their       *)
(* creation (rule ids are handed out in creation order).                   *)
(***************************************************************************)
C2_EvaluationOrder ==
  \A p \in Passes :
    LET rs == pass[p].rules
    IN \A i, j \in 1..Len(rs) :
         i < j => \/ rs[i].priority > rs[j].priority
                  \/ rs[i].priority = rs[j].priority /\ rs[i].id < rs[j].id

(***************************************************************************)
(* C5.  Once deleteRule(id) has completed, the rule store never again      *)
(* holds a rule with that id.                                              *)
(***************************************************************************)
C5_DeletedIsTerminal == \A id \in deleted : getRule(rules, id) = {}

(***************************************************************************)
(* C6.  When two applyRulesToEmail invocations for distinct messages that  *)
(* overlap have both finished and both matched the same stored rule, which *)
(* no pass had matched before, its stored hitCount is 2 higher than the 0  *)
(* it had when they started.                                               *)
(***************************************************************************)
C6_NoLostHit ==
  (overlap /\ nApply = 2 /\ Cardinality(evaluated) = 2 /\ NoPassInFlight) =>
    \A id \in RuleIds :
      (hits[id] = 2 /\ getRule(rules, id) # {}) => HitCountOf(rules, id) = 2

\* the state of rule id in the claims' terms: None until it is created
RuleState(tbl, del, id) ==
  IF getRule(tbl, id) # {}
  THEN IF (CHOOSE r \in getRule(tbl, id) : TRUE).enabled
       THEN "Enabled" ELSE "Disabled"
  ELSE IF id \in del THEN "Deleted" ELSE "None"

\* every rule keeps its state or makes one of the transitions in allowed
OnlyTransitions(allowed) ==
  \A id \in RuleIds :
    LET a == RuleState(rules, deleted, id)
        b == RuleState(rules', deleted', id)
    IN a = b \/ <<a, b>> \in allowed

(***************************************************************************)
(* C3.  Every stored message's category is one of the configured category  *)
(* ids or "uncategorized".                                                 *)
(***************************************************************************)
C3_CategoryConfigured == \A r \in emails : r.category \in CategoryIds

(***************************************************************************)
(* C4, as the code has it.  Through createRule, updateRule and deleteRule  *)
(* a rule is created Enabled and then only moves Enabled -> Disabled,      *)
(* Disabled -> Enabled, or from either to Deleted (an edit leaves it       *)
(* Enabled or Disabled as it was); a Deleted rule stays Deleted.           *)
(***************************************************************************)
C4_Transitions ==
  [][OnlyTransitions({<<"None", "Enabled">>, <<"Enabled", "Disabled">>,
                      <<"Disabled", "Enabled">>, <<"Enabled", "Deleted">>,
                      <<"Disabled", "Deleted">>})]_vars

\* C4's case: a rule that updateRule disabled, and one that was deleted
C4_Witness ==
  /\ \E id \in RuleIds : RuleState(rules, deleted, id) = "Disabled"
  /\ \E id \in RuleIds : RuleState(rules, deleted, id) = "Deleted"

(***************************************************************************)
(* C4, as the specification states it.  The only transitions are Disabled  *)
(* -> Enabled, Enabled -> Enabled and any state -> Deleted: no rule goes   *)
(* from Enabled to Disabled.                                               *)
(***************************************************************************)
C4_AsStated ==
  [][OnlyTransitions({<<"None", "Enabled">>, <<"Disabled", "Enabled">>,
                      <<"Enabled", "Deleted">>, <<"Disabled", "Deleted">>})]_vars

(***************************************************************************)
(* C7.  When a sync reports complete, every message it labelled has been   *)
(* evaluated by the rule engine.                                           *)
(***************************************************************************)
C7_RulesEvaluatedBeforeComplete ==
  sync.status = "complete" => labelled \subseteq evaluated

(***************************************************************************)
(* C8.  When an action of a matched rule fails, applyRulesToEmail still    *)
(* attempts every action of every rule of its snapshot that matches, in    *)
(* order, and returns the list of those actions instead of raising.        *)
(***************************************************************************)
C8_ActionFailureIsCaught ==
  ret.op = "applyRulesToEmail" =>
    /\ ~ret.threw
    /\ ret.value = ret.expected
    /\ ret.executed = ret.expected

\* C8's case: a pass returned after an action of it failed, with two
\* matching rules
C8_Witness ==
  /\ ret.op = "applyRulesToEmail"
  /\ ret.failed
  /\ Len(ret.value) >= 3

(***************************************************************************)
(* C9.  A cleanup executeAction of type archive or delete does not fail as *)
(* a whole when the provider fails on one message.                         *)
(***************************************************************************)
C9_CleanupNeverRejects == ret.op = "executeAction" => ~ret.threw

(***************************************************************************)
(* C10.  testRule changes neither the rule store, nor the messages, nor    *)
(* what was sent to the provider, nor any hit; it returns at most          *)
(* SampleLimit sample messages, each a stored message that satisfies all   *)
(* of the rule's conditions, and totalMatches is the number of messages    *)
(* among the TestLimit most recent ones that satisfy them.                 *)
(***************************************************************************)
C10_TestRuleIsDryRun ==
  [][ret'.op = "testRule" =>
       /\ UNCHANGED <<rules, emails, provLog, hits>>
       /\ ret'.error = "none" =>
            LET rule == CHOOSE r \in getRule(rules, ret'.id) : TRUE
                sample == ret'.value.matchingEmails
                window == getEmails(emails, TestLimit)
                Matches(e) == matchesConditions(EmailObject(e), rule.conditions)
            IN /\ Len(sample) <= SampleLimit
               /\ \A i \in 1..Len(sample) :
                     sample[i] \in emails /\ Matches(sample[i])
               /\ ret'.value.totalMatches =
                     Cardinality({i \in 1..Len(window) : Matches(window[i])})]_vars

\* C10's case: testRule returned for a rule that more than SampleLimit
\* messages match and some do not
C10_Witness ==
  /\ ret.op = "testRule"
  /\ ret.error = "none"
  /\ ret.value.totalMatches > SampleLimit
  /\ ret.value.totalMatches < Cardinality(emails)
  /\ Len(ret.value.matchingEmails) = SampleLimit

\* the stored rule id
RuleOf(tbl, id) == CHOOSE r \in getRule(tbl, id) : TRUE

\* the conditions of the rule hold one and all (a conjunction)
AllConditionsHold(email, rule) ==
  \A i \in 1..Len(rule.conditions) : matchesCondition(email, rule.conditions[i])

\* the rule has a regex condition whose pattern does not compile
HasMalformedRegex(rule) ==
  \E i \in 1..Len(rule.conditions) :
    /\ rule.conditions[i].operator = "regex"
    /\ RegExpThrows(rule.conditions[i].value)

\* the action lists of the stored rules ids, one after the other
RECURSIVE ConcatActions(_, _)
ConcatActions(tbl, ids) ==
  IF ids = <<>> THEN <<>>
  ELSE RuleOf(tbl, Head(ids)).actions \o ConcatActions(tbl, Tail(ids))

(***************************************************************************)
(* C12.  A rule with a regex condition whose pattern is malformed matches  *)
(* no message: no pass appends its actions or records a hit for it,        *)
(* applyRulesToEmail and testRule return without raising, and testRule     *)
(* reports no match for it.                                                *)
(***************************************************************************)
C12_MalformedRegexNeverMatches ==
  /\ \A id \in RuleIdsOf(rules) :
       HasMalformedRegex(RuleOf(rules, id)) =>
         /\ hits[id] = 0
         /\ \A p \in Passes :
              \A i \in 1..Len(pass[p].order) : pass[p].order[i] # id
         /\ (ret.op = "applyRulesToEmail") =>
              \A i \in 1..Len(ret.order) : ret.order[i] # id
         /\ (ret.op = "testRule" /\ ret.id = id) =>
              /\ ret.error = "none"
              /\ ret.value.totalMatches = 0
              /\ ret.value.matchingEmails = <<>>
  /\ (ret.op = "applyRulesToEmail") => ~ret.threw

\* C12's case: a pass returned and a test ran while a rule with a malformed
\* pattern and a rule that matched were stored
C12_Witness ==
  /\ \E id \in RuleIdsOf(rules) : HasMalformedRegex(RuleOf(rules, id))
  /\ \E id \in RuleIdsOf(rules) : hits[id] > 0
  /\ nApply > 0
  /\ ret.op = "testRule"
  /\ ret.error = "none"
  /\ HasMalformedRegex(RuleOf(rules, ret.id))

(***************************************************************************)
(* C13.  applyRulesToEmail returns the action lists, one after the other   *)
(* in evaluation order, of exactly the stored rules that are enabled and   *)
(* whose conditions all hold for the message; only such a rule gets a hit. *)
(***************************************************************************)
C13_ExactlyTheMatchingRules ==
  [][/\ \A id \in RuleIds :
          hits'[id] # hits[id] =>
            /\ getRule(rules, id) # {}
            /\ RuleOf(rules, id).enabled
            /\ \E p \in Passes :
                 running = p /\ AllConditionsHold(pass[p].start, RuleOf(rules, id))
     /\ ret'.op = "applyRulesToEmail" =>
          LET eligible ==
                {id \in RuleIdsOf(rules') :
                   /\ RuleOf(rules', id).enabled
                   /\ AllConditionsHold(ret'.email, RuleOf(rules', id))}
              order == ret'.order
          IN /\ {order[i] : i \in 1..Len(order)} = eligible
             /\ Len(order) = Cardinality(eligible)
             /\ ret'.value = ConcatActions(rules', order)]_vars

\* C13's case: the first of two passes applied two rules, one of them was
\* then disabled, and the second pass returned the actions of the other alone
C13_Witness ==
  /\ ret.op = "applyRulesToEmail"
  /\ nApply = 2
  /\ Len(ret.order) = 1
  /\ hits[ret.order[1]] = 2
  /\ \E id \in RuleIdsOf(rules) :
       /\ ~RuleOf(rules, id).enabled
       /\ hits[id] = 1
       /\ AllConditionsHold(ret.email, RuleOf(rules, id))

(***************************************************************************)
(* C14.  A rule whose conditions hold for the message only with the        *)
(* category an earlier rule of the pass has stored, and not with the       *)
(* category the message had when the pass began, is not applied in that    *)
(* pass.                                                                   *)
(***************************************************************************)
C14_SinglePass ==
  (ret.op = "applyRulesToEmail") =>
    \A i \in 1..Len(ret.order) :
      getRule(rules, ret.order[i]) # {} =>
        \A k \in 1..Len(RuleOf(rules, ret.order[i]).conditions) :
          LET c == RuleOf(rules, ret.order[i]).conditions[k]
          IN c.field = "category" =>
               matchesCondition([category |-> ret.email.category], c)

\* C14's case: the pass stored a new category, and an enabled rule keyed on
\* it, which the message as stored now satisfies, was not applied
C14_Witness ==
  /\ ret.op = "applyRulesToEmail"
  /\ \E row \in emails :
       /\ row.id = ret.email.id
       /\ row.category # ret.email.category
       /\ \E id \in RuleIdsOf(rules) :
            /\ RuleOf(rules, id).enabled
            /\ AllConditionsHold(EmailObject(row), RuleOf(rules, id))
            /\ ~AllConditionsHold(ret.email, RuleOf(rules, id))
            /\ \A i \in 1..Len(ret.order) : ret.order[i] # id

(***************************************************************************)
(* C19.  classify returns the category with the highest score, the first   *)
(* in the order of categoryPatterns when several share it; when no score   *)
(* is above zero it returns "uncategorized" with confidence 0.             *)
(***************************************************************************)
C19_HighestScoreWins ==
  (ret.op = "classify") =>
    LET n == Len(CategoryPatterns)
        sc == ret.scores
    IN IF \A c \in 1..n : sc[c] <= 0
       THEN ret.category = uncategorized /\ ret.confidence = 0
       ELSE \E c \in 1..n :
              /\ ret.category = CategoryPatterns[c].id
              /\ \A d \in 1..n : sc[d] <= sc[c]
              /\ \A d \in 1..(c - 1) : sc[d] < sc[c]

\* C19's case: two categories of different weight share the highest score
C19_Witness ==
  /\ ret.op = "classify"
  /\ \E c, d \in 1..Len(CategoryPatterns) :
       /\ c < d
       /\ CategoryPatterns[c].weight # CategoryPatterns[d].weight
       /\ ret.scores[c] = ret.scores[d]
       /\ ret.scores[c] > 0
       /\ \A b \in 1..Len(CategoryPatterns) : ret.scores[b] <= ret.scores[c]
       /\ ret.category = CategoryPatterns[c].id

\* subject, snippet, body and sender are each absent or the empty string
EmptyMessage(email) ==
  \A o \in {email.subject, email.snippet, email.body, email.from,
             email.fromName} : o \in {{}, {<<>>}}

(***************************************************************************)
(* C20, as the code has it.  classify on a message whose subject, snippet, *)
(* body and sender are empty or absent and which has no unsubscribe flag   *)
(* returns "uncategorized", importance 0.5 (10 twentieths) and no keyword. *)
(***************************************************************************)
C20_EmptyMessage ==
  (ret.op = "classify" /\ EmptyMessage(ret.email)
     /\ ~ret.email.hasUnsubscribe) =>
    /\ ret.category = uncategorized
    /\ ret.importance = 10
    /\ ret.keywords = 0

\* C20's case: classify returned for a message with an absent subject and
\* an empty sender
C20_Witness ==
  /\ ret.op = "classify"
  /\ EmptyMessage(ret.email)
  /\ ~ret.email.hasUnsubscribe
  /\ ret.email.subject = {}
  /\ ret.email.from = {<<>>}

(***************************************************************************)
(* C20, as the specification states it.  classify on a message whose       *)
(* subject, snippet, body and sender are empty or absent returns           *)
(* "uncategorized", importance 0.5 and no keyword.                         *)
(***************************************************************************)
C20_AsStated ==
  (ret.op = "classify" /\ EmptyMessage(ret.email)) =>
    /\ ret.category = uncategorized
    /\ ret.importance = 10
    /\ ret.keywords = 0

\* the entries of a list of ids whose stored message has an unsubscribe link
EntriesWithLink(tbl, ids) ==
  {i \in 1..Len(ids) :
     \E r \in tbl : r.id = ids[i] /\ MsgUnsubscribeLink(r.messageId) # {}}

(***************************************************************************)
(* C11.  When bulkUnsubscribe returns, processed + skipped is the length   *)
(* of the list of ids it was given, unknown and repeated ids included, and *)
(* processed is the number of entries whose message has a non-null         *)
(* unsubscribe link.                                                       *)
(***************************************************************************)
C11_ProcessedPlusSkipped ==
  (ret.op = "bulkUnsubscribe" /\ ~ret.threw) =>
    /\ ret.processed + ret.skipped = Len(ret.emailIds)
    /\ ret.processed = Cardinality(EntriesWithLink(emails, ret.emailIds))

\* C11's case: a list with the newsletter twice and an unknown id returned
C11_Witness ==
  /\ ret.op = "bulkUnsubscribe"
  /\ ~ret.threw
  /\ ret.processed = 2
  /\ ret.skipped = 1
  /\ \E i \in 1..Len(ret.emailIds) : getEmail(emails, ret.emailIds[i]) = {}

(***************************************************************************)
(* C15.  Two consecutive calls of findDuplicates on an unchanged store     *)
(* return the same groups, keys and members in the same order; each group  *)
(* has more than one member, its members agree on the trimmed lower-cased  *)
(* subject, the lower-cased sender and the lower-cased first 50 characters *)
(* of the snippet, and its member 0 is its newest message.                 *)
(***************************************************************************)
C15_DuplicateGroups ==
  (ret.op = "findDuplicates") =>
    /\ \A g \in ret.previous : ret.groups = g
    /\ \A k \in 1..Len(ret.groups) :
         LET members == ret.groups[k].emails
         IN /\ Len(members) > 1
            /\ \A i, j \in 1..Len(members) :
                 KeyParts(members[i]) = KeyParts(members[j])
            /\ \A i \in 1..Len(members) :
                 getTime(MsgDate(members[1].messageId))
                   >= getTime(MsgDate(members[i].messageId))

\* the stored marketing messages that carry an unsubscribe link
Subscriptions(tbl) ==
  {r \in tbl : r.category = marketing /\ MsgUnsubscribeLink(r.messageId) # {}}

\* the sender domain of a stored message
DomainOf(r) == SenderDomain(MsgFrom(r.messageId))

(***************************************************************************)
(* C16.  findInactiveSubscriptions returns exactly one message for each    *)
(* sender domain whose marketing messages with an unsubscribe link are all *)
(* unread and whose newest such message is more than 90 days old, namely   *)
(* that newest message, and no message of any other domain.                *)
(***************************************************************************)
C16_OnePerInactiveDomain ==
  (ret.op = "findInactiveSubscriptions") =>
    /\ \A i \in 1..Len(ret.value) : ret.value[i] \in Subscriptions(emails)
    /\ \A d \in {DomainOf(r) : r \in Subscriptions(emails)} :
         LET group == {r \in Subscriptions(emails) : DomainOf(r) = d}
             newest == CHOOSE r \in group :
                         \A q \in group : MsgDay(q.messageId) <= MsgDay(r.messageId)
             entries == {i \in 1..Len(ret.value) : DomainOf(ret.value[i]) = d}
         IN IF /\ \A r \in group : ~r.isRead
               /\ MsgDay(newest.messageId) + InactiveDays < now
            THEN Cardinality(entries) = 1 /\ \A i \in entries : ret.value[i] = newest
            ELSE entries = {}

\* C16's case: three unread newsletters of domain s, the newest 91 days old,
\* give one entry, the newest, while domain n, with a read one, gives none
C16_Witness ==
  /\ ret.op = "findInactiveSubscriptions"
  /\ Len(ret.value) = 1
  /\ ret.value[1].messageId = 33
  /\ {31, 32, 33} \subseteq {r.messageId : r \in Subscriptions(emails)}
  /\ \E r \in Subscriptions(emails) : r.messageId = 34 /\ r.isRead

\* the stored messages of a category
InCategory(tbl, category) == {r \in tbl : r.category = category}

SuggestionTypes == {ret.value[i].type : i \in 1..Len(ret.value)}

\* no duplicates and no message whose attachments reach 5 MB
NoDuplicatesNoLarge ==
  /\ Cardinality({KeyParts(r) : r \in emails}) = Cardinality(emails)
  /\ \A r \in emails : SumSeq(MsgAttachmentSizes(r.messageId)) < LargeMinSize

\* exactly one suggestion, "spam", naming every marketing message
OnlySpam ==
  /\ Len(ret.value) = 1
  /\ ret.value[1].type = "spam"
  /\ Len(ret.value[1].emailIds) = Cardinality(InCategory(emails, marketing))
  /\ {ret.value[1].emailIds[i] : i \in 1..Len(ret.value[1].emailIds)}
       = {r.id : r \in InCategory(emails, marketing)}

(***************************************************************************)
(* C17, as the code has it.  getCleanupSuggestions produces the "spam"     *)
(* suggestion iff the store holds more than 50 marketing messages; on a    *)
(* store with more than 50 marketing messages of which at most 20 are      *)
(* unread, without duplicates, large attachments, inactive subscriptions   *)
(* and shopping messages older than 365 days, it returns exactly one       *)
(* suggestion, of type "spam", whose emailIds are the marketing messages.  *)
(***************************************************************************)
C17_SpamSuggestion ==
  (ret.op = "getSuggestions") =>
    /\ ("spam" \in SuggestionTypes)
         <=> (Cardinality(InCategory(emails, marketing)) > 50)
    /\ (/\ Cardinality(InCategory(emails, marketing)) > 50
        /\ NoDuplicatesNoLarge
        /\ Cardinality({r \in InCategory(emails, marketing) : ~r.isRead}) <= 20
        /\ findInactiveSubscriptions(emails, now) = <<>>
        /\ \A r \in InCategory(emails, shopping) :
             MsgDay(r.messageId) + OldDays >= now)
       => OnlySpam

\* C17's case: 60 marketing messages, 20 of them unread, give the one
\* suggestion with 60 ids
C17_Witness ==
  /\ ret.op = "getSuggestions"
  /\ Cardinality(InCategory(emails, marketing)) = 60
  /\ Cardinality({r \in InCategory(emails, marketing) : ~r.isRead}) = 20
  /\ OnlySpam

(***************************************************************************)
(* C17, as the specification states it.  On a store with 60 marketing      *)
(* messages, no duplicates and no large attachments getCleanupSuggestions  *)
(* returns exactly one suggestion, of type "spam", with those 60 ids.      *)
(***************************************************************************)
C17_AsStated ==
  (/\ ret.op = "getSuggestions"
   /\ Cardinality(InCategory(emails, marketing)) = 60
   /\ NoDuplicatesNoLarge)
    => OnlySpam

\* the place of a suggestion type in the order of generation
GenerationOrder(type) ==
  CASE type = "duplicate" -> 1
    [] type = "inactive_subscription" -> 2
    [] type = "spam" -> 3
    [] type = "large_attachment" -> 4
    [] type = "old_transactional" -> 5
    [] type = "unread_newsletters" -> 6

(***************************************************************************)
(* C18.  In the list getCleanupSuggestions returns every high-priority     *)
(* suggestion stands before every medium one and every medium one before   *)
(* every low one, and suggestions of equal priority stand in the order in  *)
(* which they were generated.                                              *)
(***************************************************************************)
C18_PriorityOrder ==
  (ret.op = "getSuggestions") =>
    \A i, j \in 1..Len(ret.value) :
       i < j =>
         LET a == ret.value[i]
             b == ret.value[j]
         IN /\ PriorityOrder(a.priority) <= PriorityOrder(b.priority)
            /\ a.priority = b.priority
                 => GenerationOrder(a.type) < GenerationOrder(b.type)

\* C18's case: all six suggestions are returned, the high one first, the
\* medium ones next with the unread newsletters last of them
C18_Witness ==
  /\ ret.op = "getSuggestions"
  /\ Len(ret.value) = 6
  /\ ret.value[1].type = "inactive_subscription"
  /\ ret.value[4].type = "unread_newsletters"
  /\ ret.value[6].type = "old_transactional"


\* a message of a bank whose subject holds "statement", with what the
\* patterns and keywords of the classifier find in it
StatementOfBank(email, f) ==
  /\ includes(toLowerCase(OrEmpty(email.subject)), toLowerCase(Statement))
  /\ includes(toLowerCase(OrEmpty(email.from)), <<"b", "a", "n", "k">>)
  /\ f[1].patterns >= 1
  /\ f[1].senderPatterns = 1
  /\ f[1].keywords >= 1
  /\ f[8].keywords >= 1

(***************************************************************************)
(* C21, as the code has it.  For a message of a bank whose subject holds   *)
(* "statement", classify returns a confidence above 0.5 (100               *)
(* two-hundredths); the category is "financial" unless another category    *)
(* scores strictly higher than financial, and it is "financial" when the   *)
(* rest of the message matches nothing of another category.                *)
(***************************************************************************)
C21_StatementOfBank ==
  (ret.op = "classify" /\ StatementOfBank(ret.email, ret.f)) =>
    /\ ret.confidence > 100
    /\ (ret.category = financial) <=>
         (\A c \in 2..Len(CategoryPatterns) : ret.scores[c] <= ret.scores[1])
    /\ (/\ \A c \in 2..7 : ret.f[c] = NoMatch
        /\ ret.f[8] = [NoMatch EXCEPT !.keywords = 1]
        /\ ~ret.email.hasUnsubscribe) => ret.category = financial

\* C21's case: classify returned "financial" for a bank's statement that
\* also matches patterns of another category
C21_Witness ==
  /\ ret.op = "classify"
  /\ StatementOfBank(ret.email, ret.f)
  /\ ret.category = financial
  /\ ret.confidence = 132
  /\ \E c \in 2..7 : ret.f[c].patterns = 1

(***************************************************************************)
(* C21, as the specification states it.  For a message of a bank whose     *)
(* subject holds "statement", whatever else it holds, classify returns     *)
(* "financial" with a confidence above 0.5.                                *)
(***************************************************************************)
C21_AsStated ==
  (ret.op = "classify" /\ StatementOfBank(ret.email, ret.f)) =>
    /\ ret.category = financial
    /\ ret.confidence > 100


\* the fixed adjustment of a category, in twentieths
CategoryAdjustment ==
  [c \in CategoryIds \cup {uncategorized} |->
     IF c = important THEN 6
     ELSE IF c = financial THEN 3
     ELSE IF c \in {bills, travel} THEN 2
     ELSE IF c = marketing THEN -4
     ELSE IF c = social THEN -2
     ELSE 0]

\* the highest of the scores classify computed, 0 when none is positive
WinningScore ==
  LET S == {ret.scores[c] : c \in 1..Len(CategoryPatterns)} \cup {0}
  IN CHOOSE x \in S : \A y \in S : y <= x

(***************************************************************************)
(* C23.  The importance classify returns is 0.5, plus 0.2 for each urgency *)
(* pattern found in subject and snippet, plus the adjustment of the        *)
(* winning category, plus 0.1 when the winning score is above 5, clamped   *)
(* to [0, 1] (0..20 twentieths); it is never outside that range.           *)
(***************************************************************************)
C23_Importance ==
  (ret.op = "classify") =>
    LET text == OrEmpty(ret.email.subject) \o <<" ">>
                  \o OrEmpty(ret.email.snippet)
        found == IF \E i \in 1..Len(text) : text[i] # " "
                 THEN ret.urgent ELSE 0
        raw == 10 + 4 * found + CategoryAdjustment[ret.category]
                 + (IF WinningScore > 100 THEN 2 ELSE 0)
    IN /\ ret.importance = (IF raw < 0 THEN 0 ELSE IF raw > 20 THEN 20 ELSE raw)
       /\ ret.importance >= 0
       /\ ret.importance <= 20

\* C23's case: both urgency patterns are found in a message classified
\* "important" with a score above 5, so the sum is 1.3 and the clamp acts
C23_Witness ==
  /\ ret.op = "classify"
  /\ ret.urgent = 2
  /\ ret.email.subject = {Statement}
  /\ ret.category = important
  /\ WinningScore > 100
  /\ ret.importance = 20


\* the call returned by throwing 'Rule not found' and left the rules alone
RuleNotFound ==
  /\ "error" \in DOMAIN ret'
  /\ ret'.error = "Rule not found"
  /\ rules' = rules

(***************************************************************************)
(* C22.  updateRule, deleteRule and testRule called with an id that is     *)
(* not in the rule store each fail with 'Rule not found' and leave the     *)
(* rule store unchanged.                                                   *)
(***************************************************************************)
C22_UnknownIdFails ==
  [][\A id \in RuleIds :
       (getRule(rules, id) = {}) =>
         /\ (\E u \in {[enabled |-> FALSE], [priority |-> 1]} :
               updateRule(id, u)) => RuleNotFound
         /\ deleteRule(id) => RuleNotFound
         /\ testRule(id) => RuleNotFound]_vars


\* the stored row of a stored rule
StoredRule(tbl, id) == CHOOSE r \in getRule(tbl, id) : TRUE

(***************************************************************************)
(* C28.  updateRule(id, updates) on a stored rule changes only the fields  *)
(* named in updates: the stored hit count, last hit and creation time, and *)
(* every other field not named, are after the call what they were before.  *)
(***************************************************************************)
C28_UpdateKeepsTheRest ==
  [][\A id \in RuleIds :
       \A u \in {[enabled |-> FALSE], [enabled |-> TRUE], [priority |-> 1]} :
         (getRule(rules, id) # {} /\ updateRule(id, u)) =>
           /\ getRule(rules', id) # {}
           /\ \A f \in DOMAIN StoredRule(rules, id) \ DOMAIN u :
                StoredRule(rules', id)[f] = StoredRule(rules, id)[f]]_vars


(***************************************************************************)
(* C24.  With the message date and the condition value both written by     *)
(* toISOString, a date condition with operator before holds exactly when   *)
(* the message's instant is strictly earlier than the value's, and with    *)
(* operator after exactly when it is strictly later, also within one day.  *)
(***************************************************************************)
C24_DateOrder ==
  (ret.op = "matchesCondition") =>
    (ret.result <=> IF ret.operator = "before" THEN ret.date < ret.value
                    ELSE ret.date > ret.value)


\* the fields and the operators matchesCondition has a case for
RecognizedFields ==
  {"from", "to", "subject", "body", "category", "date", "hasAttachment", "size"}

RecognizedOperators ==
  {"contains", "equals", "startsWith", "endsWith", "regex", "before", "after",
   "greaterThan", "lessThan"}

\* the rule has a condition whose field or operator is not recognized
HasUnknownCondition(rule) ==
  \E i \in 1..Len(rule.conditions) :
    \/ rule.conditions[i].field \notin RecognizedFields
    \/ rule.conditions[i].operator \notin RecognizedOperators

(***************************************************************************)
(* C25.  A condition whose field or operator is not recognized is false    *)
(* for every message and raises nothing: a rule that holds one matches no  *)
(* message, no pass appends its actions or records a hit for it, and       *)
(* testRule reports no match for it.                                       *)
(***************************************************************************)
C25_UnknownConditionIsFalse ==
  /\ \A id \in RuleIdsOf(rules) :
       HasUnknownCondition(RuleOf(rules, id)) =>
         /\ \A row \in emails :
              ~matchesConditions(EmailObject(row), RuleOf(rules, id).conditions)
         /\ hits[id] = 0
         /\ \A p \in Passes :
              \A i \in 1..Len(pass[p].order) : pass[p].order[i] # id
         /\ (ret.op = "applyRulesToEmail") =>
              \A i \in 1..Len(ret.order) : ret.order[i] # id
         /\ (ret.op = "testRule" /\ ret.id = id) =>
              /\ ret.error = "none"
              /\ ret.value.totalMatches = 0
              /\ ret.value.matchingEmails = <<>>
  /\ (ret.op = "applyRulesToEmail") => ~ret.threw

\* C25's case: a pass returned and a test ran on a rule with an unknown
\* operator after a condition that holds, while the rule on known fields
\* matched
C25_Witness ==
  /\ \E id \in RuleIdsOf(rules) : hits[id] > 0
  /\ nApply > 0
  /\ ret.op = "testRule"
  /\ ret.error = "none"
  /\ RuleOf(rules, ret.id).conditions = <<fromContainsAt, unknownOperator>>


\* the fields and action types the Gmail filter format has
ExportedFields == {"from", "to", "subject"}

ExportedActions == {"archive", "markRead", "delete", "label"}

\* the conditions on exported fields, and the actions of exported types
KeptConditions(rule) ==
  SelectSeq(rule.conditions, LAMBDA c : c.field \in ExportedFields)

KeptActions(rule) ==
  SelectSeq(rule.actions, LAMBDA a : a.type \in ExportedActions)

\* entry i of a Gmail export carries the kept conditions and actions of rule
\* i, one criterion and one filter action each, in order, and nothing else
GmailEntryCarriesKept(entry, rule) ==
  /\ entry.criteria =
       JoinSpace([k \in 1..Len(KeptConditions(rule)) |->
                    Criterion(KeptConditions(rule)[k])[1]])
  /\ Len(entry.actions) = Len(KeptActions(rule))
  /\ \A k \in 1..Len(entry.actions) :
       entry.actions[k] = FilterAction(KeptActions(rule)[k])[1]

\* entry i of an Outlook export carries the given conditions and actions
OutlookEntryCarries(entry, conditions, actions) ==
  /\ Len(entry.conditions) = Len(conditions)
  /\ \A k \in 1..Len(conditions) :
       /\ entry.conditions[k].type = conditions[k].field
       /\ entry.conditions[k].value = conditions[k].value
  /\ Len(entry.actions) = Len(actions)
  /\ \A k \in 1..Len(actions) : entry.actions[k].action = actions[k].type

\* the export returned one entry per stored rule and left the store alone
ExportOfTheStore ==
  /\ ret.rules = getRules(rules)
  /\ Len(ret.value) = Len(rules)

(***************************************************************************)
(* C26, as the code has it.  exportRulesForProvider leaves the rule store  *)
(* unchanged and returns one entry per stored rule; for gmail the entry    *)
(* carries only the from/to/subject conditions and the archive, markRead,  *)
(* delete and label actions of the rule, the rest being dropped; for       *)
(* outlook it carries every condition and every action of the rule.        *)
(***************************************************************************)
C26_Export ==
  (ret.op = "exportRulesForProvider") =>
    /\ ExportOfTheStore
    /\ \A i \in 1..Len(ret.value) :
         IF ret.provider = "gmail"
         THEN GmailEntryCarriesKept(ret.value[i], ret.rules[i])
         ELSE OutlookEntryCarries(ret.value[i], ret.rules[i].conditions,
                                  ret.rules[i].actions)

\* C26's case: a Gmail export of a store with a rule that has a category
\* condition and a categorize action between exported ones
C26_Witness ==
  /\ ret.op = "exportRulesForProvider"
  /\ ret.provider = "gmail"
  /\ \E i \in 1..Len(ret.rules) :
       /\ Len(KeptConditions(ret.rules[i])) = 2
       /\ Len(ret.rules[i].conditions) = 3
       /\ Len(ret.value[i].actions) = 2
       /\ Len(ret.rules[i].actions) = 3

(***************************************************************************)
(* C26, as the specification states it.  For each target, the export       *)
(* carries only the from/to/subject conditions and the archive, markRead,  *)
(* delete and label actions of each rule and leaves the store unchanged.   *)
(***************************************************************************)
C26_AsStated ==
  (ret.op = "exportRulesForProvider") =>
    /\ ExportOfTheStore
    /\ \A i \in 1..Len(ret.value) :
         IF ret.provider = "gmail"
         THEN GmailEntryCarriesKept(ret.value[i], ret.rules[i])
         ELSE OutlookEntryCarries(ret.value[i], KeptConditions(ret.rules[i]),
                                  KeptActions(ret.rules[i]))


\* the groups of duplicates of the store the behaviour started with, whose
\* row ids are the ids in labelled
FormerGroups ==
  findDuplicates({Row(m, uncategorized, FALSE) : m \in labelled})

EnabledEmptyRules(tbl) ==
  {id \in RuleIdsOf(tbl) :
     RuleOf(tbl, id).enabled /\ RuleOf(tbl, id).conditions = <<>>}

\* the pass is at a rule without conditions, takes its actions up for
\* execution and records the match
TakesUpEmptyRule(p) ==
  LET rule == Head(pass[p].rules)
  IN /\ pass'[p].pc = "exec"
     /\ pass'[p].actions = rule.actions
     /\ pass'[p].appliedActions = pass[p].appliedActions \o rule.actions
     /\ hits'[rule.id] = hits[rule.id] + 1

\* testRule reported every message of the window it examined
ReportsWholeWindow(result) ==
  LET window == getEmails(emails, TestLimit)
  IN /\ result.totalMatches = Len(window)
     /\ result.matchingEmails = SubSeq(window, 1, Min(SampleLimit, Len(window)))

(***************************************************************************)
(* C29.  An enabled rule with an empty condition list matches every        *)
(* message: every applyRulesToEmail call evaluates it, executes its        *)
(* actions and raises its stored hit count by one, and testRule reports    *)
(* every message of the examined window as matching.                       *)
(***************************************************************************)
C29_EmptyConditionsMatchAll ==
  [][/\ \A p \in Passes :
          (pass[p].pc = "idle" /\ pass'[p].pc = "loop") =>
            EnabledEmptyRules(rules)
              \subseteq {pass'[p].rules[i].id : i \in 1..Len(pass'[p].rules)}
     /\ \A p \in Passes :
          (/\ ApplyLoop(p)
           /\ pass[p].rules # <<>>
           /\ Head(pass[p].rules).conditions = <<>>) =>
            /\ TakesUpEmptyRule(p)
            /\ HitCountOf(rules', Head(pass[p].rules).id)
                 = HitCountOf(rules, Head(pass[p].rules).id) + 1
     /\ (/\ ret'.op = "testRule"
         /\ ret'.error = "none"
         /\ ret'.id \in EnabledEmptyRules(rules)) =>
          ReportsWholeWindow(ret'.value)]_vars


(***************************************************************************)
(* C30.  A message that has a stored category other than "uncategorized"   *)
(* when a sync starts, set by the user or by a categorize action, has the  *)
(* same stored category when that sync, with its classification step, has  *)
(* completed.                                                              *)
(***************************************************************************)
C30_SyncKeepsCategory ==
  [][(sync.pc = "classifying" /\ sync'.pc = "idle") =>
       \A b \in sync.before :
         b[2] # uncategorized =>
           \E r \in emails' : r.messageId = b[1] /\ r.category = b[2]]_vars

=============================================================================
